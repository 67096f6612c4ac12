SPECIFICATION AllSpec
CONSTANTS
    MaxDomains = 3
    MaxInbox = 1
    Apps = {editor, browser}
    Residents = 2
    DesktopDomains = 5
CHECK_DEADLOCK FALSE
INVARIANTS LiveDomainHasApp
PROPERTIES NoOvertaking EveryReadyRuns
