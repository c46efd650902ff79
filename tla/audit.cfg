SPECIFICATION Spec
CONSTANTS
    Kinds = {"ssh.auth_ok", "audit.login", "audit.logout", "audit.execve", "net.conn"}
    User = {"alice"}
    FP = {"f"}
    IP = {"ip"}
    Port = {1}
    Pid = {2, 3}
    Ses = {5}
    Agent = {}
    MaxConns = 1
    MaxExecs = 1
    Window = 0
    ProcTTL = 1
    PlumbTTL = 1
    LinePid = {2}
    ProcPid = {3}
    Shown = {"f"}
    Claims = {}
    Scopes = {}
    MaxLag = 0
    MaxTime = 2
INVARIANT IndexIntegrity
INVARIANT IdentityKept
 
