------------------------------ MODULE LocHeap ------------------------------
(***************************************************************************)
(* LocHeap (gps/utils/LocHeap.cpp): a binary tree whose nodes hold a       *)
(* pointer to the ranked object (mData) and the size of their subtree      *)
(* (mSize).  A node is named by the path that leads to it from the top; a  *)
(* heap is a function from a prefix-closed set of paths to nodes.  push,   *)
(* pop and remove move the data along one path and never the nodes, as the *)
(* code's swap does.  An object outranks another (LocRankable::outRanks) if *)
(* its key is smaller.                                                     *)
(***************************************************************************)
EXTENDS Naturals, Sequences, FiniteSets

Left == 1
Right == 2
Top == << >>
EmptyHeap == << >>
    \* the function without arguments: mTree is NULL

Node(data, size) == [data |-> data, size |-> size]
Exists(h, p) == p \in DOMAIN h
Child(p, side) == Append(p, side)
Prefix(p, n) == SubSeq(p, 1, n)
OnPath(q, p) == Len(q) <= Len(p) /\ Prefix(p, Len(q)) = q

Outranks(key, d, e) == key[d] < key[e]

Members(h) == {h[p].data : p \in DOMAIN h}

\* LocHeap::peek; None is the caller's NULL
peek(h, None) == IF Exists(h, Top) THEN h[Top].data ELSE None

(***************************************************************************)
(* push: the new node goes to the first free side, or to the smaller of    *)
(* the subtrees.                                                           *)
(***************************************************************************)
PushSide(h, p) ==
    IF ~Exists(h, Child(p, Left)) THEN Left
    ELSE IF ~Exists(h, Child(p, Right)) THEN Right
    ELSE IF h[Child(p, Left)].size <= h[Child(p, Right)].size THEN Left ELSE Right

\* The free path at which the node that push drops into the tree ends.
FreePath(h) ==
    LET walk[n \in 0..Cardinality(DOMAIN h)] ==
            IF n = 0 THEN Top
            ELSE LET p == walk[n - 1]
                 IN IF Exists(h, p) THEN Child(p, PushSide(h, p)) ELSE p
    IN walk[Cardinality(DOMAIN h)]

push(h, d, key) ==
    LET leaf == FreePath(h)
        \* what the new node holds when it has passed the first n nodes
        carried[n \in 0..Len(leaf)] ==
            IF n = 0 THEN d
            ELSE LET here == h[Prefix(leaf, n - 1)].data
                     above == carried[n - 1]
                 IN IF Outranks(key, above, here) THEN here ELSE above
        kept(p) == LET new == carried[Len(p)]
                   IN IF Outranks(key, new, h[p].data) THEN new ELSE h[p].data
    IN [p \in DOMAIN h \union {leaf} |->
           IF p = leaf THEN Node(carried[Len(leaf)], 1)
           ELSE IF OnPath(p, leaf) THEN Node(kept(p), h[p].size + 1)
           ELSE h[p]]

(***************************************************************************)
(* pop: the data below moves up along the path of the higher ranked        *)
(* children, and the leaf that path ends in is taken out.                  *)
(***************************************************************************)
\* Mutant: the left subtree's top moves up whatever it holds.
PopSide_Left(h, p, key) ==
    IF Exists(h, Child(p, Left)) THEN Left ELSE Right

PopSide(h, p, key) ==
    IF ~Exists(h, Child(p, Left)) THEN Right
    ELSE IF ~Exists(h, Child(p, Right)) THEN Left
    ELSE IF Outranks(key, h[Child(p, Left)].data, h[Child(p, Right)].data) THEN Left ELSE Right

IsLeaf(h, p) == ~Exists(h, Child(p, Left)) /\ ~Exists(h, Child(p, Right))

LeafPath(h, top, key) ==
    LET walk[n \in 0..Cardinality(DOMAIN h)] ==
            IF n = 0 THEN top
            ELSE LET p == walk[n - 1]
                 IN IF IsLeaf(h, p) THEN p ELSE Child(p, PopSide(h, p, key))
    IN walk[Cardinality(DOMAIN h)]

PopAt(h, top, key) ==
    LET leaf == LeafPath(h, top, key)
        below(p) == h[Prefix(leaf, Len(p) + 1)].data
    IN [p \in DOMAIN h \ {leaf} |->
           IF ~OnPath(p, leaf) THEN h[p]
           ELSE Node(IF OnPath(top, p) THEN below(p) ELSE h[p].data, h[p].size - 1)]

pop(h, key) == PopAt(h, Top, key)

(***************************************************************************)
(* remove: the search for the object's address skips the subtrees whose    *)
(* top is outranked by the object.                                         *)
(***************************************************************************)
FoundAt(h, d, key) ==
    {p \in DOMAIN h :
        /\ h[p].data = d
        /\ \A n \in 0..Len(p) - 1 : ~Outranks(key, d, h[Prefix(p, n)].data)}

remove(h, d, key) ==
    LET found == FoundAt(h, d, key)
    IN IF found = {} THEN h
       ELSE PopAt(h, CHOOSE p \in found : TRUE, key)

(***************************************************************************)
(* LocHeapNode::checkNodes: every mSize counts its subtree and no node is  *)
(* outranked by its child.                                                 *)
(***************************************************************************)
checkNodes(h, key) ==
    \A p \in DOMAIN h :
        /\ h[p].size = Cardinality({q \in DOMAIN h : OnPath(p, q)})
        /\ p # Top => LET up == Prefix(p, Len(p) - 1)
                      IN up \in DOMAIN h /\ ~Outranks(key, h[p].data, h[up].data)
============================================================================
