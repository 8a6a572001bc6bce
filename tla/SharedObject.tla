----------------------------- MODULE SharedObject -----------------------------
(***************************************************************************)
(* Shared objects (SharedArray, SharedMap, SharedSet), composed with the   *)
(* untimed phases that synchronize them.  The instances of an object on    *)
(* one rank write the same data, one thread at a time; the ranks exchange  *)
(* what was written, thread 0 of each, between two rounds of init.  The    *)
(* object is verified: two different values for one key stop the program,  *)
(* on the rank itself or in the exchange.                                  *)
(*                                                                         *)
(* There is one name, and one instance of it in some partitions; objects of *)
(* different names do not meet.  A key is an array's index, a map's key or *)
(* the class of equal elements of a set, whose value is then the element.  *)
(***************************************************************************)
EXTENDS UntimedPhase, SequencesExt

CONSTANTS
    Sharers,        \* the partitions that have an instance
    Kinds,          \* of {"array", "map", "set"}
    Verify,         \* of {"FE_VERIFY", "INIT_VERIFY", "NO_VERIFY"}
    Keys,           \* 1 .. the largest length of an array
    Values,         \* what is written; 0 is an array's init_value
    InPlace,        \* a map or set that is not verified is written twice at a key
    MaxWrites       \* bound on the number of writes

ASSUME SharedAssumption ==
    /\ Ranks \subseteq Nat /\ Sharers \subseteq Part
    /\ Kinds \subseteq {"array", "map", "set"}
    /\ Verify \subseteq {"FE_VERIFY", "INIT_VERIFY", "NO_VERIFY"}
    /\ Keys \in {1 .. n : n \in Keys} /\ Values \subseteq Nat /\ 0 \in Values
    /\ InPlace \in BOOLEAN /\ MaxWrites \in Nat

VARIABLES
    kind,           \* the type of the object
    object,         \* the SharedObjectData of each rank, and its change set
    instance,       \* "none", "initialized" or "published"
    log,            \* history: all writes <<p, key, value>>, in order
    settled,        \* history: nothing has been done since the last update
    known           \* history: the instances there were at the last update

svars == <<kind, object, instance, log, settled, known>>
allvars == <<vars, svars>>

None == -1
Uninitialized == "VERIFY_UNINITIALIZED"

NoObject ==
    [made |-> FALSE, verify |-> Uninitialized, data |-> [k \in Keys |-> None],
     written |-> {}, share |-> 0, publish |-> 0, fully |-> FALSE, locked |-> FALSE,
     changes |-> <<>>, fatal |-> FALSE]

SharedInit ==
    /\ Init
    /\ kind \in Kinds
    /\ object = [r \in Ranks |-> NoObject]
    /\ instance = [p \in Sharers |-> "none"]
    /\ log = <<>>
    /\ settled = TRUE
    /\ known = {}

Fatal == \E r \in Ranks : object[r].fatal

-----------------------------------------------------------------------------
(* setSize of an array of length n, setVerify of a map or set. *)
Declared(o, n, v) ==
    IF v = Uninitialized THEN o
    ELSE [o EXCEPT !.verify = v,
                   !.fatal = @ \/ o.verify \notin {Uninitialized, v},
                   !.data = [k \in Keys |->
                        IF kind = "array" /\ k <= n /\ @[k] = None THEN 0 ELSE @[k]]]

(* Mutant of Conflict: only the rank's own writes are full/empty checked. *)
ConflictInit(o, k, v) ==
    IF kind = "array"
    THEN o.verify = "INIT_VERIFY" /\ o.data[k] \notin {0, v}
    ELSE o.verify # "NO_VERIFY" /\ o.data[k] \notin {None, v}

(* The write of v at k contradicts what is there. *)
Conflict(o, k, v) ==
    IF kind = "array"
    THEN /\ o.data[k] # v
         /\ \/ o.verify = "FE_VERIFY" /\ k \in o.written
            \/ o.verify = "INIT_VERIFY" /\ o.data[k] # 0
    ELSE o.verify # "NO_VERIFY" /\ o.data[k] \notin {None, v}

(* update_write: an array is overwritten, a map or set keeps what it has. *)
UpdateWrite(o, x) ==
    LET k == x[1]
        v == x[2]
    IN  IF Conflict(o, k, v) THEN [o EXCEPT !.fatal = TRUE]
        ELSE [o EXCEPT !.data[k] = IF kind = "array" \/ @ = None THEN v ELSE @,
                       !.written = @ \cup {k}]

(* ChangeSet::addChange: an array's list, a map's last, a set's first value. *)
AddChange(c, x) ==
    LET same == {i \in DOMAIN c : c[i][1] = x[1]}
    IN  IF Cardinality(Ranks) = 1 \/ (kind = "set" /\ same # {}) THEN c
        ELSE IF kind = "map" /\ same # {}
        THEN [i \in DOMAIN c |-> IF i \in same THEN x ELSE c[i]]
        ELSE Append(c, x)

(* A component runs in its constructor, in init or complete, and in setup. *)
Active(p) == pc[p] \in {"begin", "components", "setup"}

(***************************************************************************)
(* initialize: getSharedObjectData, which is fatal once the manager is     *)
(* locked, incShareCount, and for an array of length 0 nothing more.       *)
(***************************************************************************)
Initialize(p, n, v) ==
    LET o == object[RankOf[p]]
    IN  /\ Active(p) /\ instance[p] = "none"
        /\ instance' = [instance EXCEPT ![p] = "initialized"]
        /\ object' = [object EXCEPT ![RankOf[p]] =
                IF o.locked THEN [o EXCEPT !.fatal = TRUE]
                ELSE [Declared(o, n, IF kind = "array" /\ n = 0 THEN Uninitialized ELSE v)
                        EXCEPT !.made = TRUE, !.share = @ + 1]]
        /\ settled' = FALSE
        /\ UNCHANGED <<vars, kind, log, known>>

Publish(p) ==
    /\ Active(p) /\ instance[p] = "initialized"
    /\ instance' = [instance EXCEPT ![p] = "published"]
    /\ object' = [object EXCEPT ![RankOf[p]].publish = @ + 1]
    /\ settled' = FALSE
    /\ UNCHANGED <<vars, kind, log, known>>

(***************************************************************************)
(* What components may write: an array's index below its size, and without *)
(* verification only what no other instance writes ("when you can guarantee *)
(* that multiple elements won't write the same value").                    *)
(***************************************************************************)
MayWrite(p, k) ==
    LET o == object[RankOf[p]]
        earlier == {i \in DOMAIN log : log[i][2] = k}
    IN  /\ kind = "array" => o.data[k] # None
        /\ o.verify = "NO_VERIFY" =>
            /\ \A i \in earlier : log[i][1] = p
            /\ kind = "array" \/ InPlace \/ earlier = {}

(* write, under the mutex of the data; fatal after publish and after init. *)
Write(p, k, v) ==
    LET o == object[RankOf[p]]
    IN  /\ Active(p) /\ instance[p] # "none" /\ MayWrite(p, k)
        /\ Len(log) < MaxWrites
        /\ log' = Append(log, <<p, k, v>>)
        /\ object' = [object EXCEPT ![RankOf[p]] =
                IF instance[p] = "published" \/ o.locked THEN [o EXCEPT !.fatal = TRUE]
                ELSE [UpdateWrite(o, <<k, v>>) EXCEPT !.changes = AddChange(@, <<k, v>>)]]
        /\ settled' = FALSE
        /\ UNCHANGED <<vars, kind, instance, known>>

-----------------------------------------------------------------------------
SizeOf(o) == Cardinality({k \in Keys : o.data[k] # None})

(* applyChanges of the change set of rank s. *)
ApplyChanges(o, s) ==
    IF ~object[s].made THEN o
    ELSE FoldLeft(UpdateWrite,
                  [Declared(o, SizeOf(object[s]), object[s].verify) EXCEPT !.made = TRUE],
                  object[s].changes)

(* Those of the other ranks, in their order. *)
Gathered(r) ==
    MapThenFoldSet(LAMBDA s, o : ApplyChanges(o, s), object[r], LAMBDA s : s, Max, Ranks \ {r})

(* Mutant of FullyPublished: a rank looks at its own instances only. *)
FullyPublishedHere(r) == object[r].share = object[r].publish

(* The flags of all ranks for the object, as they were before the exchange. *)
FullyPublished(r) ==
    \A s \in Ranks : object[s].made => object[s].share = object[s].publish

(* updateState(finalize) on all ranks. *)
UpdateState ==
    /\ Update
    /\ object' = [r \in Ranks |->
            LET finalize == pc[Master[r]] = "finalize"
                o == [Gathered(r) EXCEPT !.changes = <<>>, !.fully = FullyPublished(r)]
            IN  IF finalize THEN [o EXCEPT !.fully = TRUE, !.locked = TRUE] ELSE o]
    /\ settled' = TRUE
    /\ known' = {p \in Sharers : instance[p] # "none"}
    /\ UNCHANGED <<kind, instance, log>>

(* Lengths are for arrays; a map or set takes FE_VERIFY and INIT_VERIFY to be the same. *)
Lengths == IF kind = "array" THEN 0 .. Cardinality(Keys) ELSE {0}
VerifyTypes == IF kind = "array" THEN Verify ELSE Verify \ {"INIT_VERIFY"}

SharedStep(p) ==
    \/ \E n \in Lengths, v \in VerifyTypes : Initialize(p, n, v)
    \/ Publish(p)
    \/ \E k \in Keys, v \in Values : Write(p, k, v)

(* After a fatal error all ranks are aborted. *)
SharedNext ==
    \/ /\ ~Fatal
       /\ \/ \E p \in Part : Step(p) /\ UNCHANGED svars
          \/ \E p \in Sharers : SharedStep(p)
          \/ ExchangeData /\ UNCHANGED svars
          \/ UpdateState
          \/ \E r \in Ranks : Run(r) /\ UNCHANGED svars
    \/ (Fatal \/ Over) /\ UNCHANGED allvars

SharedSpec == SharedInit /\ [][SharedNext]_allvars

(* Every thread keeps running, and the run ends. *)
SharedFairness ==
    /\ \A p \in Part : WF_allvars(~Fatal /\ Step(p) /\ UNCHANGED svars)
    /\ WF_allvars(~Fatal /\ ExchangeData /\ UNCHANGED svars)
    /\ WF_allvars(~Fatal /\ UpdateState)
    /\ \A r \in Ranks : WF_allvars(~Fatal /\ Run(r) /\ UNCHANGED svars)

SharedFairSpec == SharedSpec /\ SharedFairness

-----------------------------------------------------------------------------
(***************************************************************************)
(* Once exchanged, the object is the same on all ranks and holds every     *)
(* write, of all threads of all ranks and whatever their order: with       *)
(* FE_VERIFY each value, with INIT_VERIFY each but the init_value, without *)
(* verification the last of each key.  So contradictory writes have been   *)
(* detected, on whichever ranks they were made.                            *)
(***************************************************************************)
SameContents ==
    settled /\ ~Fatal => \A r, s \in Ranks :
        /\ object[r].data = object[s].data
        /\ \A i \in DOMAIN log :
            LET k == log[i][2]
                v == log[i][3]
            IN  \/ object[r].data[k] = v
                \/ kind = "array" /\ object[r].verify = "INIT_VERIFY" /\ v = 0
                \/ object[r].verify = "NO_VERIFY" /\ \E j \in DOMAIN log : j > i /\ log[j][2] = k

(***************************************************************************)
(* A component that sees isFullyPublished() on any rank has all data: what *)
(* is in the object on all ranks changes no more, unless an instance was   *)
(* initialized since the last update ("possible that this could return     *)
(* true one round, but false the next").                                   *)
(***************************************************************************)
PublishedIsFinal ==
    [][\A r, s \in Ranks : object[r].fully /\ ~object[r].locked =>
        \/ \A k \in Keys : object[s].data[k] \in {None, object'[s].data[k]}
        \/ \E p \in Sharers \ known : instance[p] # "none"]_allvars

(***************************************************************************)
(* updateState reads and clears the data without the mutex of write, which *)
(* is right only because no component of the rank runs in the meantime     *)
(* ("called from one thread at a time, with barrier before and after").    *)
(***************************************************************************)
QuietUpdate ==
    \A r \in Ranks : pc[Master[r]] \in Updating => \A p \in PartsOf(r) : ~Active(p)

(* If the components stop sending, both phases come to an end or the program is aborted. *)
SharedPhasesEnd == <>(Over \/ Fatal)
=============================================================================
