SPECIFICATION Spec
CONSTANTS
    Kinds = {"event", "replay", "full", "status", "refresh", "single", "edit", "delete", "import", "rules"}
    Slots = {1, 2}
    Remotes = {"pending_ship", "shipped", "cancelled"}
    Chosen = {"pending_ship", "completed"}
    AccountRules = {1}
    ItemRules = {2, 3}
    MaxActs = 2
    MaxCommands = 1
    MaxTries = 2
    MaxFaults = 1
INVARIANTS  ConfirmedIsRecorded
PROPERTIES NoWayBack
CHECK_DEADLOCK FALSE
