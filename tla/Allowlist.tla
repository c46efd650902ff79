------------------------------ MODULE Allowlist ------------------------------
(***************************************************************************)
(* From the files of an allowlist to the verdict on a session: the profile *)
(* entries of the embedded pack, the rules directories and the extra file  *)
(* are merged by id, validated and cut down to those enabled               *)
(* (internal/rules, app.loadPack); the first profile a session matches     *)
(* takes clues out of its score (internal/score).                          *)
(***************************************************************************)
EXTENDS Integers, Sequences, FiniteSets, FiniteSetsExt, SequencesExt

CONSTANTS
    Embedded,     \* the profile entries of the embedded pack, a sequence
    Files,        \* other files, sequences of profile entries
    EnabledSets,  \* what allowlist.profiles_enabled can list
    ClueIds,      \* clues a session can show, a subset of AllClues
    Commands,     \* [tool, other, channels]: what a session ran
    MaxFiles      \* files besides the embedded one, the extra file last

VARIABLES
    files,    \* the files in the order they are merged
    enabled,  \* ids listed in the configuration
    pack,     \* [status, profiles] of the daemon
    track,    \* the session scored, NoTrack between two
    verdict

policyVars == <<files, enabled, pack, track, verdict>>

NoTrack   == [user |-> "nobody"]
NoPack    == [status |-> "none", profiles |-> <<>>]
NoVerdict == [score |-> -1]

-----------------------------------------------------------------------------
(* Clues: weight, category and the entries of `suppress' that name each.   *)

Clue(weight, category, names) ==
    [weight |-> weight, category |-> category, names |-> names \cup {category}]

BannerClues ==
    [library    |-> Clue(35, "banner", {"banner.library"}),
     automation |-> Clue(15, "banner", {"banner.automation"}),
     human      |-> Clue(-10, "banner", {"banner.human"})]
RhythmClues ==
    [burst      |-> Clue(20, "rhythm", {"rhythm.burst"}),
     regular    |-> Clue(10, "rhythm", {"rhythm.regular"}),
     subsecond  |-> Clue(10, "rhythm", {"rhythm.subsecond"}),
     sustained  |-> Clue(10, "rhythm", {"rhythm.sustained"}),
     think_time |-> Clue(15, "rhythm", {"rhythm.think_time"})]
PTYClues ==
    [no_pty      |-> Clue(15, "pty", {"pty.none"}),
     interactive |-> Clue(-15, "pty", {"pty.interactive"})]
StyleClues ==
    [compound |-> Clue(10, "style", {"style.compound"}),
     wrapper  |-> Clue(8, "style", {"style.tool_wrapper"})]
ProcClues ==
    [agent_name |-> Clue(45, "process", {"proc.agent_name", "proc"}),
     agent_env  |-> Clue(40, "process", {"proc.agent_env", "proc"}),
     skip_flags |-> Clue(25, "flags", {"proc.skip_flags", "proc"})]
NetClues      == [ai_api |-> Clue(30, "network", {"net.ai_api", "net"})]
IdentityClues == [ai_agent |-> Clue(0, "identity", {"env.ai_agent", "env"})]

AllClues ==
    [c \in DOMAIN BannerClues \cup DOMAIN RhythmClues \cup DOMAIN PTYClues \cup DOMAIN StyleClues
             \cup DOMAIN ProcClues \cup DOMAIN NetClues \cup DOMAIN IdentityClues |->
        CASE c \in DOMAIN BannerClues   -> BannerClues[c]
          [] c \in DOMAIN RhythmClues   -> RhythmClues[c]
          [] c \in DOMAIN PTYClues      -> PTYClues[c]
          [] c \in DOMAIN StyleClues    -> StyleClues[c]
          [] c \in DOMAIN ProcClues     -> ProcClues[c]
          [] c \in DOMAIN NetClues      -> NetClues[c]
          [] c \in DOMAIN IdentityClues -> IdentityClues[c]]

Weight == [c \in DOMAIN AllClues |-> AllClues[c].weight]
Excuse == [c \in DOMAIN AllClues |-> 0 - AllClues[c].weight]

CategoryCaps == [banner |-> 35, rhythm |-> 45, pty |-> 15, style |-> 30,
                 process |-> 45, flags |-> 25, network |-> 30, identity |-> 0]

protectedCategories == {"process", "flags", "identity"}
protectedSuppress   == {"process", "flags", "identity", "proc.agent_name",
                        "proc.agent_env", "proc.skip_flags", "env.ai_agent"}
knownSuppress == UNION {AllClues[c].names : c \in DOMAIN AllClues}

Profiles ==
    [id : STRING, users : SUBSET STRING, clauses : BOOLEAN, required : BOOLEAN,
     banner : BOOLEAN, minRatio : Int, suppress : SUBSET STRING, maxScore : Int,
     allow : BOOLEAN, disabled : BOOLEAN]

ASSUME AllowlistAssumption ==
    /\ Embedded \in Seq(Profiles) /\ Files \subseteq Seq(Profiles)
    /\ ClueIds \subseteq DOMAIN AllClues /\ MaxFiles \in Nat

-----------------------------------------------------------------------------
(* Loading. *)

PositionOf(list, id) == {i \in DOMAIN list : list[i].id = id}

\* Later entries replace earlier ones in place; a disabled one removes the id.
Upsert(list, item) ==
    LET at == PositionOf(list, item.id)
    IN  CASE at # {} /\ item.disabled  -> RemoveAt(list, Min(at))
          [] at # {} /\ ~item.disabled -> ReplaceAt(list, Min(at), item)
          [] at = {} /\ item.disabled  -> list
          [] at = {} /\ ~item.disabled -> Append(list, item)

Merge(list, file) == FoldLeft(Upsert, list, file)

BehaviourNames ==
    UNION {AllClues[c].names : c \in {d \in DOMAIN AllClues :
                                        AllClues[d].category \in {"rhythm", "pty", "style"}}}

hasAnchor(p) == p.users # {} \/ p.required \/ p.banner

Valid(p) ==
    /\ p.suppress # {} \/ p.maxScore > 0
    /\ p.suppress \subseteq knownSuppress
    /\ p.suppress \cap protectedSuppress # {} => p.allow
    /\ p.suppress \cap BehaviourNames # {} => hasAnchor(p)

Keep(kept, p) == IF p.id \in enabled THEN Append(kept, p) ELSE kept

loadPack ==
    LET merged == FoldLeft(Merge, <<>>, files)
    IN  IF \A i \in DOMAIN merged : Valid(merged[i])
        THEN [status |-> "running", profiles |-> FoldLeft(Keep, <<>>, merged)]
        ELSE [status |-> "refused", profiles |-> <<>>]

-----------------------------------------------------------------------------
(* Matching. A track ran `tool' commands that a profile's clauses match,   *)
(* `other' commands with text, and at least `channels' commands in all.    *)

DefaultMinMatchRatio == 80

minRatio(p) == IF p.minRatio = 0 THEN DefaultMinMatchRatio ELSE p.minRatio

\* The denominator counts the channels too; without text a banner decides.
anyOfReaches(t, p) ==
    IF t.cmds.tool + t.cmds.other > 0
    THEN 100 * t.cmds.tool >= minRatio(p) * Max({t.cmds.tool + t.cmds.other,
                                                t.cmds.channels})
    ELSE p.banner /\ "library" \in t.clues

matchOne(t, p) ==
    /\ p.users # {} \/ p.clauses
    /\ p.users # {} => t.user \in p.users
    /\ p.clauses => /\ p.required => t.cmds.tool > 0
                    /\ anyOfReaches(t, p)

\* The index of the first profile the track matches, 0 when there is none.
MatchProfile(t) ==
    LET hits == {i \in DOMAIN pack.profiles : matchOne(t, pack.profiles[i])}
    IN  IF hits = {} THEN 0 ELSE Min(hits)

-----------------------------------------------------------------------------
(* Scoring. *)

Thresholds == [info |-> 40, alert |-> 70, high |-> 90]

\* Mutant: a profile takes any clue out.
applyProfileAll(p, clues) ==
    {c \in clues : AllClues[c].names \cap p.suppress = {}}

\* Clues of a protected category stay unless the profile allows agents.
applyProfile(p, clues) ==
    {c \in clues : \/ AllClues[c].names \cap p.suppress = {}
                   \/ AllClues[c].category \in protectedCategories /\ ~p.allow}

Positive(clues, category) ==
    SumFunctionOnSet(Weight, {c \in clues : AllClues[c].category = category /\ Weight[c] > 0})

Contribution(clues, category) == Min({Positive(clues, category), CategoryCaps[category]})

Counted(clues) == {k \in DOMAIN CategoryCaps : Contribution(clues, k) > 0}

\* An interactive shell excuses nothing once an agent process was seen.
Negative(clues) ==
    SumFunctionOnSet(Excuse,
                     {c \in clues : /\ Weight[c] < 0
                                    /\ ~(c = "interactive" /\ Positive(clues, "process") > 0)})

RawScore(clues) ==
    Max({0, Min({100, SumFunction([k \in DOMAIN CategoryCaps |-> Contribution(clues, k)])
                        - Negative(clues)})})

\* A profile's max_score hides no agent process unless the profile allows it.
Capped(p, clues) ==
    IF p.maxScore > 0 /\ (p.allow \/ Positive(clues, "process") + Positive(clues, "flags") = 0)
    THEN Min({RawScore(clues), p.maxScore}) ELSE RawScore(clues)

Rank(score) ==
    CASE score >= Thresholds.high  -> 3
      [] score >= Thresholds.alert -> 2
      [] score >= Thresholds.info  -> 1
      [] OTHER -> 0

\* Alert and high need two contributing categories.
Level(score, clues) ==
    IF Rank(score) >= 2 /\ Cardinality(Counted(clues)) < 2 THEN 1 ELSE Rank(score)

Evaluate(t) ==
    LET i     == MatchProfile(t)
        clues == IF i = 0 THEN t.clues ELSE applyProfile(pack.profiles[i], t.clues)
        score == IF i = 0 THEN RawScore(clues) ELSE Capped(pack.profiles[i], clues)
        level == Level(score, clues)
        declared == "ai_agent" \in t.clues
    IN  [score   |-> score,
         profile |-> IF i = 0 THEN "" ELSE pack.profiles[i].id,
         removed |-> t.clues \ clues,
         class   |-> IF declared THEN "declared_agent"
                     ELSE IF level >= 2 THEN "suspected_agent" ELSE "human",
         level   |-> IF declared THEN Max({1, level}) ELSE level]

-----------------------------------------------------------------------------

TrackSet == [user : {"ops", "dev"}, clues : SUBSET ClueIds, cmds : Commands]

PolicyInit ==
    /\ \E n \in 0 .. MaxFiles : \E others \in [1 .. n -> Files] :
          files = <<Embedded>> \o others
    /\ enabled \in EnabledSets
    /\ pack = NoPack
    /\ track = NoTrack
    /\ verdict = NoVerdict

\* The daemon starts, or refuses to with an invalid pack.
Start ==
    /\ pack.status = "none"
    /\ pack' = loadPack
    /\ UNCHANGED <<files, enabled, track, verdict>>

Score ==
    /\ pack.status = "running" /\ track = NoTrack
    /\ track' \in TrackSet
    /\ verdict' = Evaluate(track')
    /\ UNCHANGED <<files, enabled, pack>>

Release ==
    /\ track # NoTrack
    /\ track' = NoTrack
    /\ verdict' = NoVerdict
    /\ UNCHANGED <<files, enabled, pack>>

PolicyNext == Start \/ Score \/ Release

PolicySpec == PolicyInit /\ [][PolicyNext]_policyVars

-----------------------------------------------------------------------------
(* What is promised.                                                       *)

Entries == FlattenSeq(files)

\* The entries in force, read off the files: the last one of each id, unless
\* it disables the id or the id is not enabled.
InForce ==
    {Entries[i] : i \in {j \in DOMAIN Entries :
        /\ ~Entries[j].disabled /\ Entries[j].id \in enabled
        /\ \A k \in DOMAIN Entries : Entries[k].id = Entries[j].id => k <= j}}

\* What agent processes and their flags alone are worth.
ProtectedScore(clues) ==
    Max({0, (Contribution(clues, "process") + Contribution(clues, "flags"))
              - Negative(clues)})

\* A verdict is without a profile, or with one in force that covers the
\* session's user and whose required command it ran; only a profile that allows
\* agent processes can hide one, or push the score below what the processes and
\* flags are worth, and a declaration always stands.
Bounded(t, v) ==
    /\ \/ v.profile = "" /\ v.removed = {} /\ v.score = RawScore(t.clues)
       \/ \E p \in InForce :
             /\ p.id = v.profile
             /\ t.user \in p.users \/ p.users = {}
             /\ p.clauses /\ p.required => t.cmds.tool > 0
             /\ \/ p.allow
                \/ /\ v.score >= ProtectedScore(t.clues)
                   /\ \A c \in v.removed : AllClues[c].category \notin protectedCategories
    /\ "ai_agent" \in t.clues => v.class = "declared_agent" /\ v.level >= 1

\* Every verdict is bounded by the entries of the allowlist that are in force
\* (allowlist.go applyProfile, scorer.go Evaluate, app.go loadPack).
AllowlistBounded == track # NoTrack => Bounded(track, verdict)

=============================================================================
