---------------------------- MODULE MCSerializer ----------------------------
(***************************************************************************)
(* Small object graphs for Serializer: a root with two fields of any kind, *)
(* two nodes with one, and a vector of a datum and a pointer.              *)
(***************************************************************************)
EXTENDS Serializer, FiniteSets, TLC

CONSTANTS n1, n2, vec

Kinds == {"pointer", "container", "unique", "shared", "weak"}
Raw == {"pointer", "container"}
Nodes == {n1, n2}

(* What a field points to; the node that the root points to first is n1. *)
Points(kind) ==
    CASE kind = "container" -> {Null, vec}
      [] kind = "value" -> Nodes
      [] OTHER -> {Null, n1, n2}
FirstPoints(kind) == Points(kind) \ {n2}

(* The pointers of a graph: who holds them, which one it is, its kind, and where it leads. *)
Edges(r, s, k, g) ==
    {e \in {<<Root, 1, r, g.a>>, <<Root, 2, s, g.b>>, <<n1, 1, k, g.x>>, <<n2, 1, k, g.y>>,
            <<vec, 1, "pointer", g.v>>} : e[4] # Null}
Step(edges, os) == os \cup {e[4] : e \in {f \in edges : f[1] \in os}}
From(edges, os) == Step(edges, Step(edges, Step(edges, os)))
To(edges, o, ks) == {e \in edges : e[4] = o /\ e[3] \in ks}

(* An object belongs to one unique_ptr, to shared pointers, to the root whose  *)
(* member it is, or is held by raw pointers; one that weak pointers outlive is *)
(* held by nothing else.  An object that is not reached points nowhere.        *)
WellFormed(edges) ==
    \A o \in Nodes \cup {vec} :
        LET owned == {ks \in {{"unique"}, {"shared", "weak"}, {"value"}} : To(edges, o, ks) # {}}
        IN  /\ Cardinality(owned) <= 1
            /\ Cardinality(To(edges, o, {"unique", "value"})) <= 1
            /\ To(edges, o, {"shared", "weak"}) # {} => To(edges, o, Raw) = {}
            /\ To(edges, o, {"weak"}) # {} /\ To(edges, o, {"shared"}) = {} => Step(edges, {o}) = {o}
            /\ o \notin From(edges, {Root}) => Step(edges, {o}) = {o}

(* Without tracking, what raw pointers lead to is a tree. *)
Tree(edges) ==
    \A o \in Nodes \cup {vec} : Cardinality(To(edges, o, Raw \cup {"unique", "value"})) <= 1

(* Whether the container can be reached from itself, see the README. *)
ContainerCycle(edges) == vec \in From(edges, Step(edges, {vec}) \ {vec})

(* The graphs whose root has fields of kinds r and s, and the nodes of kind k. *)
Graph(r, s, k, g) ==
    [tracking |-> g.tracking,
     kinds |-> [root |-> <<"data", r, s>>, node |-> <<"data", k>>, vector |-> <<"data", "pointer">>],
     cls |-> (Root :> "root") @@ (vec :> "vector") @@ [n \in Nodes |-> "node"],
     to |-> (Root :> <<Root, g.a, g.b>>) @@ (n1 :> <<n1, g.x>>) @@ (n2 :> <<n2, g.y>>)
            @@ (vec :> <<vec, g.v>>)]

Graphs(r, s, k, cycles) ==
    {Graph(r, s, k, g) :
        g \in {g \in [tracking : BOOLEAN, a : FirstPoints(r), b : Points(s), x : Points(k),
                      y : Points(k), v : {Null, n1, n2}] :
            /\ WellFormed(Edges(r, s, k, g))
            /\ g.tracking \/ Tree(Edges(r, s, k, g))
            /\ cycles = ContainerCycle(Edges(r, s, k, g))}}

AllGraphs(cycles) ==
    UNION {Graphs(r, s, k, cycles) :
              r \in Kinds \cup {"value"}, s \in Kinds \cup {"value"}, k \in Kinds}
MCHeaps == AllGraphs(FALSE)
ContainerHeaps == AllGraphs(TRUE)
=============================================================================
