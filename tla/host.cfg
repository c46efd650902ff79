SPECIFICATION MCSpec
CONSTANTS
    Mains <- MCMains
    Admins <- MCAdmins
    AdminRules <- MCAdminRules
    Hosts <- MCHosts
    MaxEdits = 1
    Embedded <- MCEmbedded
    Files <- MCFiles
    EnabledSets <- MCEnabledSets
    ClueIds = {"library", "burst", "interactive", "agent_name", "skip_flags", "ai_agent"}
    Commands <- MCCommands
    MaxFiles = 2
CHECK_DEADLOCK FALSE
INVARIANT CheckHonest FixConverges AllowlistBounded
