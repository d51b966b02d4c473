CONSTANTS
    Calls = {c1, c2, c3, c4}
    Nobody = Nobody
    MaxWaiting = 2
    TurnWaitTimeout = 4
    RequestTimeout = 2
    DismissTimeout = 1
SPECIFICATION PanelFairSpec
INVARIANT OneDialogAtATime
INVARIANT PermitsBalance
INVARIANT NoStackedPanels
INVARIANT PanelIsForTheTurn
PROPERTY GivesUpOnlyAfterAnotherTurn
PROPERTY ImplementsOneDialog
PROPERTY EveryCallReturns
PROPERTY CancelHitsItsOwnPanel
PROPERTY PanelsComeDown
CHECK_DEADLOCK FALSE
