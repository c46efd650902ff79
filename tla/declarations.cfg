SPECIFICATION Spec
CONSTANTS
    Kinds = {"ssh.auth_ok", "ssh.session_start", "ssh.env", "proc.seen", "proc.gone"}
    User = {"alice"}
    FP = {"f"}
    IP = {"ip"}
    Port = {1}
    Pid = {2, 3}
    Ses = {}
    Agent = {"x"}
    MaxConns = 1
    MaxExecs = 1
    Window = 0
    ProcTTL = 0
    PlumbTTL = 1
    LinePid = {2}
    ProcPid = {3}
    Shown = {"f"}
    Claims = {"x", "invalid"}
    Scopes = {}
    MaxLag = 0
    MaxTime = 2
INVARIANT IndexIntegrity
INVARIANT DeclaredBacked
PROPERTY EvidenceKept
