SPECIFICATION Spec
CONSTANTS
    Kinds = {"ssh.auth_ok", "ssh.session_start", "proc.seen", "proc.gone"}
    User = {"alice"}
    FP = {"f"}
    IP = {"ip"}
    Port = {1}
    Pid = {2, 3}
    Ses = {}
    Agent = {"x"}
    MaxConns = 1
    MaxExecs = 1
    Window = 1
    ProcTTL = 1
    PlumbTTL = 1
    LinePid = {2}
    ProcPid = {3}
    Shown = {"f"}
    Claims = {"x"}
    Scopes = {}
    MaxLag = 0
    MaxTime = 1
INVARIANT ProcWithdrawable

