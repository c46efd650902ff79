SPECIFICATION Spec
CONSTANTS
    Kinds = {"audit.login", "proc.seen"}
    User = {"alice"}
    FP = {"f"}
    IP = {"ip"}
    Port = {1}
    Pid = {2, 3}
    Ses = {5}
    Agent = {"x"}
    MaxConns = 1
    MaxExecs = 1
    Window = 1
    ProcTTL = 1
    PlumbTTL = 1
    LinePid = {2}
    ProcPid = {3}
    Shown = {}
    Claims = {"x"}
    Scopes = {}
    MaxLag = 0
    MaxTime = 1

PROPERTY SessionJoinEarned
