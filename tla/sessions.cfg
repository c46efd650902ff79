SPECIFICATION Spec
CONSTANTS
    Kinds = {"ssh.auth_ok", "ssh.session_start", "ssh.banner", "ssh.pam_open", "ssh.disconnect"}
    alice = alice
    bob = bob
    User = {alice, bob}
    FP = {"f"}
    IP = {"ip"}
    Port = {1}
    Pid = {2, 3}
    Ses = {}
    Agent = {}
    MaxConns = 2
    MaxExecs = 2
    Window = 0
    ProcTTL = 1
    PlumbTTL = 1
    LinePid = {2}
    ProcPid = {3}
    Shown = {"f", ""}
    Claims = {}
    Scopes = {"connection", "channel", "pam"}
    MaxLag = 0
    MaxTime = 2
SYMMETRY Symmetry
INVARIANT TypeOK
INVARIANT IndexIntegrity
INVARIANT IdentityKept
INVARIANT UserLastNewest
PROPERTY EvidenceKept
