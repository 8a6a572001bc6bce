----------------------------- MODULE Serializer -----------------------------
(***************************************************************************)
(* How a checkpoint, or an event, becomes bytes and objects again: the     *)
(* serializer goes over what hangs below a root three times, to size it,   *)
(* to pack it and, in another process, to unpack it.  Objects are found    *)
(* through raw pointers, std::unique_ptr, std::shared_ptr, std::weak_ptr   *)
(* and members whose address is tracked (SerOption::as_ptr); an object may *)
(* be reached on several ways and from itself, and must be written once.   *)
(*                                                                         *)
(* The objects are a root, nodes, and a container (a std::vector) that is  *)
(* reached through a pointer.  The recursion of serialize_order is a stack *)
(* of the fields that are still to be done.  Every object holds a datum,   *)
(* which is its address: so it is known of each copy what it is a copy of. *)
(***************************************************************************)
EXTENDS Integers, Sequences, SequencesExt

CONSTANTS
    Null,           \* the null pointer
    Root,           \* the address of the root; those of the other objects are in the heap
    Heaps,          \* the object graphs to be serialized
    AsPtrElem       \* whether shared pointers are serialized with SerOption::as_ptr_elem

VARIABLES
    heap,           \* tracking: is_pointer_tracking_enabled(); kinds: the fields of a class;
                    \* cls: the class of an object; to: what its fields point to
    mode,           \* serializer::mode(), or "finished"
    todo,           \* the fields that are still to be serialized, a stack
    seen,           \* pointer_set of the sizer or packer
    tags,           \* shared_ptr_map: the owners of shared pointers, in the order of their tags
    size,           \* ser_sizer::size_
    buffer,         \* what has been packed, a sequence of primitives
    at,             \* how much of it has been unpacked
    realPtr,        \* ser_pointer_map: from packed to real addresses, as a set of pairs
    splitKey,       \* split_key
    owners,         \* shared_ptr_owners
    copies,         \* the objects that were unpacked
    warned, fatal

vars == <<heap, mode, todo, seen, tags, size, buffer, at, realPtr, splitKey, owners, copies,
          warned, fatal>>
written == <<seen, tags, size, buffer, warned>>
read == <<at, realPtr, splitKey, owners, copies>>

Objects(h) == DOMAIN h.cls

(* An object that hangs on no shared pointer but on a weak one is gone, and *)
(* its control block is left.                                               *)
Alive(h, o) ==
    \/ \A p \in Objects(h) : \A i \in DOMAIN h.to[p] :
            ~(h.to[p][i] = o /\ h.kinds[h.cls[p]][i] = "weak")
    \/ \E p \in Objects(h) : \E i \in DOMAIN h.to[p] :
            h.to[p][i] = o /\ h.kinds[h.cls[p]][i] = "shared"

(* The fields of an object, in the order of serialize_order. *)
Fields(o, class, h) == [i \in 1..Len(h.to[o]) |-> [obj |-> o, i |-> i, kind |-> h.kinds[class][i]]]

-----------------------------------------------------------------------------
(* Sizing and packing. *)

Writing == mode \in {"SIZER", "PACK"} /\ todo # <<>> /\ fatal = ""
Field == Head(todo)
Target == heap.to[Field.obj][Field.i]

(* Primitives go to the sizer or into the buffer, which throws when it is full. *)
Primitive(prims) ==
    /\ size' = IF mode = "SIZER" THEN size + Len(prims) ELSE size
    /\ buffer' = IF mode = "PACK" THEN buffer \o prims ELSE buffer
    /\ fatal' = IF Len(buffer') > size' THEN "overrun" ELSE fatal

(* What follows the field: the contents of an object that is new, or nothing. *)
Continue(contents) == todo' = contents \o Tail(todo)
Contents(o) == Fields(o, heap.cls[o], heap)

WriteData ==
    /\ Writing /\ Field.kind = "data"
    /\ Primitive(<<<<"data", Field.obj>>>>)
    /\ Continue(<<>>)
    /\ UNCHANGED <<heap, mode, seen, tags, warned, read>>

(* A container comes with its size, and an object of a class that inherits *)
(* serializable with the id of its class.                                  *)
Prefix(kind, o) ==
    IF kind = "container" THEN <<<<"size", Len(heap.to[o])>>>> ELSE <<<<"class", heap.cls[o]>>>>

(* A raw pointer, without tracking. *)
WriteUntracked ==
    /\ Writing /\ Field.kind \in {"pointer", "container"} /\ ~heap.tracking
    /\ IF Target = Null
       THEN Primitive(<<<<"nonnull", FALSE>>>>) /\ Continue(<<>>)
       ELSE /\ Primitive(<<<<"nonnull", TRUE>>>> \o Prefix(Field.kind, Target))
            /\ Continue(Contents(Target))
    /\ UNCHANGED <<heap, mode, seen, tags, warned, read>>

(* check_pointer_sizer and check_pointer_pack. *)
CheckPointer(o) == seen' = seen \cup {o}

WritePointer ==
    /\ Writing /\ Field.kind \in {"pointer", "container"} /\ heap.tracking
    /\ IF Target = Null \/ Target \in seen
       THEN Primitive(<<<<"ptr", Target>>>>) /\ Continue(<<>>) /\ UNCHANGED seen
       ELSE /\ CheckPointer(Target)
            /\ Primitive(<<<<"ptr", Target>>>> \o Prefix(Field.kind, Target))
            /\ Continue(Contents(Target))
    /\ UNCHANGED <<heap, mode, tags, warned, read>>

(* A std::unique_ptr is tracked in any case. *)
WriteUnique ==
    /\ Writing /\ Field.kind = "unique"
    /\ Primitive(<<<<"ptr", Target>>>>)
    /\ IF Target = Null \/ Target \in seen
       THEN Continue(<<>>) /\ UNCHANGED seen
       ELSE CheckPointer(Target) /\ Continue(Contents(Target))
    /\ UNCHANGED <<heap, mode, tags, warned, read>>

(* A member whose address is tracked.  Who points to it must come later: the *)
(* sizer warns if not.                                                       *)
WriteValue ==
    /\ Writing /\ Field.kind = "value"
    /\ IF heap.tracking
       THEN /\ CheckPointer(Target)
            /\ warned' = (warned \/ (mode = "SIZER" /\ Target \in seen))
            /\ Primitive(<<<<"ptr", Target>>>>)
       ELSE Primitive(<<>>) /\ UNCHANGED <<seen, warned>>
    /\ Continue(Contents(Target))
    /\ UNCHANGED <<heap, mode, tags, read>>

(* get_shared_ptr_owner_tag. *)
TagOf(o) ==
    CASE o = Null -> 0
      [] o \in Range(tags) -> CHOOSE i \in DOMAIN tags : tags[i] = o
      [] OTHER -> Len(tags) + 1

(* The tag of the owner, whether there is an address, and, with a new tag, the *)
(* object that is shared.                                                      *)
WriteShared ==
    LET tag == TagOf(Target)
        new == tag > Len(tags)
        live == Target # Null /\ Alive(heap, Target)
        tracked == AsPtrElem /\ heap.tracking
    IN  /\ Writing /\ Field.kind \in {"shared", "weak"}
        /\ tags' = IF new THEN Append(tags, Target) ELSE tags
        /\ Primitive(<<<<"tag", tag>>>>
                        \o (IF tag # 0 THEN <<<<"nonnull", live>>>> ELSE <<>>)
                        \o (IF new THEN <<<<"nonnull", live>>>> ELSE <<>>)
                        \o (IF new /\ live /\ tracked THEN <<<<"ptr", Target>>>> ELSE <<>>))
        /\ Continue(IF new /\ live THEN Contents(Target) ELSE <<>>)
        /\ IF new /\ live /\ tracked
           THEN CheckPointer(Target) /\ warned' = (warned \/ (mode = "SIZER" /\ Target \in seen))
           ELSE UNCHANGED <<seen, warned>>
        /\ UNCHANGED <<heap, mode, read>>

-----------------------------------------------------------------------------
(* Unpacking.  A copy is known by its number; the first one is the root. *)

Reading == mode = "UNPACK" /\ todo # <<>> /\ fatal = ""
At(n, what) == at + n <= Len(buffer) /\ buffer[at + n][1] = what
Val(n) == buffer[at + n][2]

(* Bytes that were not written for what is read. *)
Misread ==
    /\ fatal' = "misread"
    /\ UNCHANGED <<heap, mode, todo, written, read>>

NewCopy(class, n) == [class |-> class, data |-> Null, to |-> [i \in 1..n |-> Null]]
Next1 == Len(copies) + 1
Length(class) == Len(heap.kinds[class])
Blank(class) == Append(copies, NewCopy(class, Length(class)))
Assign(cs, value) == [cs EXCEPT ![Field.obj].to[Field.i] = value]
CopyFields(n, class, len) == [i \in 1..len |-> [obj |-> n, i |-> i, kind |-> heap.kinds[class][i]]]
Known(a) == \E p \in realPtr : p[1] = a
Real(a) == (CHOOSE p \in realPtr : p[1] = a)[2]

(* report_new_pointer and report_real_pointer. *)
Report(a, n) == realPtr' = {p \in realPtr : p[1] # a} \cup {<<a, n>>}

ReadData ==
    /\ Reading /\ Field.kind = "data"
    /\ IF ~At(1, "data") THEN Misread
       ELSE /\ copies' = [copies EXCEPT ![Field.obj].data = Val(1),
                                        ![Field.obj].to[Field.i] = Val(1)]
            /\ at' = at + 1
            /\ Continue(<<>>)
            /\ UNCHANGED <<heap, mode, written, realPtr, splitKey, owners, fatal>>

(* report_real_pointer after the object, by serialize<T*>. *)
ReportReal ==
    /\ Reading /\ Field.kind = "report"
    /\ Report(Field.i, Field.obj)
    /\ Continue(<<>>)
    /\ UNCHANGED <<heap, mode, written, at, splitKey, owners, copies, fatal>>

(* Mutant of ReadNew: the object is not reported before its contents. *)
ReadNewUnreported(n, key, after) ==
    LET class == IF Field.kind = "container" THEN "vector" ELSE Val(n + 1)
        len == IF Field.kind = "container" THEN Val(n + 1) ELSE Length(class)
    IN  IF ~At(n + 1, IF Field.kind = "container" THEN "size" ELSE "class") THEN Misread
        ELSE /\ at' = at + n + 1
             /\ splitKey' = key
             /\ copies' = Assign(Append(copies, NewCopy(class, len)), Next1)
             /\ UNCHANGED realPtr
             /\ Continue(CopyFields(Next1, class, len) \o after)
             /\ UNCHANGED <<heap, mode, written, owners, fatal>>

(* The object behind a raw pointer that is new: n primitives have been read. A *)
(* class reports the new object before its contents, a container does not.     *)
ReadNew(n, key, after) ==
    LET class == IF Field.kind = "container" THEN "vector" ELSE Val(n + 1)
        len == IF Field.kind = "container" THEN Val(n + 1) ELSE Length(class)
    IN  IF ~At(n + 1, IF Field.kind = "container" THEN "size" ELSE "class") THEN Misread
        ELSE /\ at' = at + n + 1
             /\ splitKey' = key
             /\ copies' = Assign(Append(copies, NewCopy(class, len)), Next1)
             /\ IF Field.kind = "container" THEN UNCHANGED realPtr ELSE Report(key, Next1)
             /\ Continue(CopyFields(Next1, class, len) \o after)
             /\ UNCHANGED <<heap, mode, written, owners, fatal>>

ReadUntracked ==
    /\ Reading /\ Field.kind \in {"pointer", "container"} /\ ~heap.tracking
    /\ IF ~At(1, "nonnull") THEN Misread
       ELSE IF Val(1) THEN ReadNew(1, splitKey, <<>>)
       ELSE /\ at' = at + 1
            /\ copies' = Assign(copies, Null)
            /\ Continue(<<>>)
            /\ UNCHANGED <<heap, mode, written, realPtr, splitKey, owners, fatal>>

ReadPointer ==
    LET a == Val(1)
    IN  /\ Reading /\ Field.kind \in {"pointer", "container"} /\ heap.tracking
        /\ IF ~At(1, "ptr") THEN Misread
           ELSE IF a = Null \/ Known(a)
           THEN /\ at' = at + 1
                /\ copies' = Assign(copies, IF a = Null THEN Null ELSE Real(a))
                /\ Continue(<<>>)
                /\ UNCHANGED <<heap, mode, written, realPtr, splitKey, owners, fatal>>
           ELSE ReadNew(1, a, <<[obj |-> Next1, i |-> a, kind |-> "report"]>>)

ReadUnique ==
    LET a == Val(1)
    IN  /\ Reading /\ Field.kind = "unique"
        /\ IF ~At(1, "ptr") THEN Misread
           ELSE /\ at' = at + 1
                /\ IF a = Null \/ Known(a)
                   THEN /\ copies' = Assign(copies, IF a = Null THEN Null ELSE Real(a))
                        /\ Continue(<<>>)
                        /\ UNCHANGED <<realPtr, splitKey>>
                   ELSE /\ splitKey' = a
                        /\ Report(a, Next1)
                        /\ copies' = Assign(Blank("node"), Next1)
                        /\ Continue(CopyFields(Next1, "node", Length("node")))
                /\ UNCHANGED <<heap, mode, written, owners, fatal>>

ReadValue ==
    LET n == IF heap.tracking THEN 1 ELSE 0
    IN  /\ Reading /\ Field.kind = "value"
        /\ IF heap.tracking /\ ~At(1, "ptr") THEN Misread
           ELSE /\ at' = at + n
                /\ IF heap.tracking THEN Report(Val(1), Next1) ELSE UNCHANGED realPtr
                /\ copies' = Assign(Blank("node"), Next1)
                /\ Continue(CopyFields(Next1, "node", Length("node")))
                /\ UNCHANGED <<heap, mode, written, splitKey, owners, fatal>>

(* A known tag: get_shared_ptr_owner finds the owner. *)
ReadKnownTag(tag) ==
    IF ~At(2, "nonnull") THEN Misread
    ELSE /\ at' = at + 2
         /\ copies' = Assign(copies, owners[tag])
         /\ Continue(<<>>)
         /\ UNCHANGED <<heap, mode, written, realPtr, splitKey, owners, fatal>>

(* A new one: the object that is shared follows, or there is none any more and *)
(* the new owner stands for its control block (-tag).                           *)
ReadNewTag(tag) ==
    IF ~(At(2, "nonnull") /\ At(3, "nonnull")) THEN Misread
    ELSE /\ at' = at + 3
         /\ owners' = Append(owners, IF Val(3) THEN Next1 ELSE -tag)
         /\ copies' = IF Val(3) THEN Assign(Blank("node"), Next1) ELSE Assign(copies, -tag)
         /\ Continue(IF Val(3) THEN CopyFields(Next1, "node", Length("node")) ELSE <<>>)
         /\ UNCHANGED <<heap, mode, written, realPtr, splitKey, fatal>>

ReadShared ==
    LET tag == Val(1)
    IN  /\ Reading /\ Field.kind \in {"shared", "weak"}
        /\ IF ~At(1, "tag") THEN Misread
           ELSE IF tag = 0
           THEN /\ at' = at + 1
                /\ copies' = Assign(copies, Null)
                /\ Continue(<<>>)
                /\ UNCHANGED <<heap, mode, written, realPtr, splitKey, owners, fatal>>
           ELSE IF tag <= Len(owners) THEN ReadKnownTag(tag)
           ELSE IF tag = Len(owners) + 1 THEN ReadNewTag(tag)
           ELSE /\ fatal' = "out of order"
                /\ UNCHANGED <<heap, mode, todo, written, read>>

-----------------------------------------------------------------------------
(* The three passes; each starts with empty tracking data. *)
Init ==
    /\ heap \in Heaps
    /\ mode = "SIZER" /\ todo = Fields(Root, "root", heap)
    /\ seen = {} /\ tags = <<>> /\ size = 0 /\ buffer = <<>>
    /\ at = 0 /\ realPtr = {} /\ splitKey = Null /\ owners = <<>> /\ copies = <<>>
    /\ warned = FALSE /\ fatal = ""

StartPacking ==
    /\ mode = "SIZER" /\ todo = <<>> /\ fatal = ""
    /\ mode' = "PACK" /\ todo' = Contents(Root) /\ seen' = {} /\ tags' = <<>>
    /\ UNCHANGED <<heap, size, buffer, warned, read, fatal>>

StartUnpacking ==
    /\ mode = "PACK" /\ todo = <<>> /\ fatal = ""
    /\ mode' = "UNPACK" /\ seen' = {} /\ tags' = <<>>
    /\ copies' = Blank("root")
    /\ todo' = CopyFields(1, "root", Length("root"))
    /\ UNCHANGED <<heap, size, buffer, warned, at, realPtr, splitKey, owners, fatal>>

(* finalize: what only the serializer holds is released. *)
Finalize ==
    /\ mode = "UNPACK" /\ todo = <<>> /\ fatal = ""
    /\ mode' = "finished" /\ realPtr' = {} /\ splitKey' = Null
    /\ UNCHANGED <<heap, todo, written, at, owners, copies, fatal>>

Over == (mode = "finished" \/ fatal # "") /\ UNCHANGED vars

Write == WriteData \/ WriteUntracked \/ WritePointer \/ WriteUnique \/ WriteValue \/ WriteShared
Read == ReadData \/ ReportReal \/ ReadUntracked \/ ReadPointer \/ ReadUnique \/ ReadValue \/ ReadShared

Next == Write \/ Read \/ StartPacking \/ StartUnpacking \/ Finalize \/ Over

Spec == Init /\ [][Next]_vars

-----------------------------------------------------------------------------
(* The values of a field of a copy and of the original correspond: null to *)
(* null, object to its copy, dead control block to dead control block.     *)
Corresponds(kind, orig, copy) ==
    CASE kind = "data" -> copy = orig
      [] orig = Null -> copy = Null
      [] kind = "weak" /\ ~Alive(heap, orig) -> copy # Null /\ copy < 0
      [] OTHER -> copy # Null /\ copy > 0 /\ copies[copy].data = orig

(* The weak pointers that were unpacked: what they point to, and what they did. *)
Weak ==
    {<<copies[n].to[i], heap.to[copies[n].data][i]>> :
        <<n, i>> \in {p \in (DOMAIN copies) \X (1..3) :
            /\ p[2] \in DOMAIN copies[p[1]].to
            /\ heap.kinds[copies[p[1]].class][p[2]] = "weak"}}

(* What is unpacked is the graph that was packed: every object is there once *)
(* (no two copies have the same datum), every pointer leads to the copy of   *)
(* what it led to, and weak pointers share a control block that outlived its *)
(* object exactly if they did.  The sizer has found enough room, and the     *)
(* packed bytes are all read, each as what it was written for.  This is for  *)
(* graphs of which the sizer does not warn.                                  *)
RoundTrip ==
    /\ ~warned => fatal = ""
    /\ mode = "finished" /\ ~warned =>
        /\ at = Len(buffer) /\ Len(buffer) = size
        /\ \A m, n \in DOMAIN copies : copies[m].data = copies[n].data => m = n
        /\ \A n \in DOMAIN copies :
              LET o == copies[n].data
              IN  /\ copies[n].class = heap.cls[o]
                  /\ Len(copies[n].to) = Len(heap.to[o])
                  /\ \A i \in DOMAIN copies[n].to :
                        Corresponds(heap.kinds[heap.cls[o]][i], heap.to[o][i], copies[n].to[i])
        /\ \A w, x \in Weak : w[1] = x[1] <=> w[2] = x[2]
=============================================================================
