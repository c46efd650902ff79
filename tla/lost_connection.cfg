SPECIFICATION Spec
CONSTANTS
    Kinds = {"ssh.auth_ok", "audit.login"}
    User = {"alice"}
    FP = {"f"}
    IP = {"ip"}
    Port = {1}
    Pid = {2}
    Ses = {}
    Agent = {}
    MaxConns = 2
    MaxExecs = 1
    Window = 1
    ProcTTL = 1
    PlumbTTL = 1
    LinePid = {2}
    ProcPid = {}
    Shown = {"f"}
    Claims = {}
    Scopes = {}
    MaxLag = 0
    MaxTime = 1
INVARIANT OpenConnFound

