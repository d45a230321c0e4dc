---------------------------- MODULE QuarantineVault ---------------------------
(* The agent's quarantine (agent/quarantine_manager.py): files are moved to a
   directory and recorded in its manifest.json, by the scanner's thread and by
   the threads of the command channel, each with a manager of its own over the
   same directory, without a lock.                                           *)
EXTENDS Naturals, FiniteSets

CONSTANTS Threats,        \* files to quarantine
          LabelOf,        \* their base name and hash
          Movers,         \* threads
          NoThreat,
          MaxSeconds, MaxStops    \* bounds: clock, stops of the agent

ASSUME VaultAssumption ==
    /\ NoThreat \notin Threats /\ MaxSeconds \in Nat /\ MaxStops \in Nat

VARIABLES
    where,       \* each file: in its place, moved to a second, or overwritten
    manifest,    \* its records, and whether the file is whole
    mover,       \* each thread: where it is and what it loaded
    second,      \* the clock
    stops,
    disturbed    \* history: threads changed the manifest at a time, or one was stopped

vaultVars == <<where, manifest, mover, second, stops, disturbed>>

InPlace == [at |-> "place", second |-> 0]
Moved(t) == [at |-> "vault", second |-> t]
Overwritten == [at |-> "overwritten", second |-> 0]
IdleMover == [pc |-> "idle", file |-> NoThreat, second |-> 0, loaded |-> {}]
Record(m) == <<m.file, m.second>>
ReadManifest == IF manifest.whole THEN manifest.records ELSE {}
Storing(m) == mover[m].pc \in {"open", "write"}

\* The name of a file in the vault: the second, a part of the hash, the name
Destination(f, t) == <<t, LabelOf[f]>>
Occupants(f, t) == {g \in Threats : where[g].at = "vault" /\ Destination(g, where[g].second) = Destination(f, t)}

\* quarantine_file: the path exists and is hashed, and the name chosen.
Begin(m, f) ==
    /\ mover[m].pc = "idle" /\ where[f] = InPlace
    /\ mover' = [mover EXCEPT ![m] = [pc |-> "move", file |-> f, second |-> second, loaded |-> {}]]
    /\ UNCHANGED <<where, manifest, second, stops, disturbed>>

\* shutil.move replaces a file of the same name; a file that another thread
\* moved first ends the call.
Move(m) ==
    LET f == mover[m].file
    IN  /\ mover[m].pc = "move"
        /\ \/ /\ where[f] = InPlace
              /\ where' = [g \in Threats |-> IF g = f THEN Moved(mover[m].second)
                                             ELSE IF g \in Occupants(f, mover[m].second) THEN Overwritten
                                             ELSE where[g]]
              /\ mover' = [mover EXCEPT ![m].pc = "load"]
           \/ /\ where[f] # InPlace
              /\ mover' = [mover EXCEPT ![m] = IdleMover]
              /\ UNCHANGED where
        /\ UNCHANGED <<manifest, second, stops, disturbed>>

\* _load_manifest: a manifest that cannot be read counts as empty.
LoadManifest(m) ==
    /\ mover[m].pc = "load"
    /\ mover' = [mover EXCEPT ![m].pc = "open", ![m].loaded = ReadManifest]
    /\ disturbed' = (disturbed \/ \E o \in Movers : Storing(o))
    /\ UNCHANGED <<where, manifest, second, stops>>

\* Mutant: the manifest starts anew
ContentsNew(m) == {Record(mover[m])}

Contents(m) == mover[m].loaded \cup {Record(mover[m])}

\* _save_manifest: opening the file empties it.
OpenManifest(m) ==
    /\ mover[m].pc = "open"
    /\ mover' = [mover EXCEPT ![m].pc = "write"]
    /\ manifest' = [manifest EXCEPT !.whole = FALSE]
    /\ UNCHANGED <<where, second, stops, disturbed>>

WriteManifest(m) ==
    /\ mover[m].pc = "write"
    /\ manifest' = [records |-> Contents(m), whole |-> TRUE]
    /\ mover' = [mover EXCEPT ![m] = IdleMover]
    /\ UNCHANGED <<where, second, stops, disturbed>>

\* The agent stops and starts again.
Stop ==
    /\ stops < MaxStops /\ stops' = stops + 1
    /\ mover' = [m \in Movers |-> IdleMover]
    /\ disturbed' = (disturbed \/ \E m \in Movers : mover[m].pc # "idle")
    /\ UNCHANGED <<where, manifest, second>>

Second ==
    /\ second < MaxSeconds /\ second' = second + 1
    /\ UNCHANGED <<where, manifest, mover, stops, disturbed>>

VaultInit ==
    /\ where = [f \in Threats |-> InPlace] /\ manifest = [records |-> {}, whole |-> TRUE] /\ second = 0 /\ stops = 0
    /\ mover = [m \in Movers |-> IdleMover] /\ disturbed = FALSE

VaultNext ==
    \/ \E m \in Movers : Move(m) \/ LoadManifest(m) \/ OpenManifest(m) \/ WriteManifest(m) \/ \E f \in Threats : Begin(m, f)
    \/ Stop \/ Second

VaultSpec == VaultInit /\ [][VaultNext]_vaultVars

-----------------------------------------------------------------------------

VaultTypeOK ==
    /\ where \in [Threats -> {InPlace, Overwritten} \cup {Moved(t) : t \in 0 .. MaxSeconds}]
    /\ manifest \in [records : SUBSET (Threats \X (0 .. MaxSeconds)), whole : BOOLEAN]
    /\ \A m \in Movers : mover[m].file \in Threats \cup {NoThreat}
    /\ second \in 0 .. MaxSeconds /\ stops \in 0 .. MaxStops /\ disturbed \in BOOLEAN

\* Every file in the vault can be found again by its record, once its thread
\* is through, unless threads wrote the manifest at a time or the agent stopped.
VaultRecorded ==
    ~disturbed => \A f \in Threats : where[f].at = "vault" =>
        \/ <<f, where[f].second>> \in manifest.records
        \/ \E m \in Movers : mover[m].pc # "idle" /\ Record(mover[m]) = <<f, where[f].second>>
=============================================================================
