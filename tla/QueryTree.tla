------------------------------- MODULE QueryTree ------------------------------
(***************************************************************************)
(* One query message on its way from a testcase to the ePDG, line by line: *)
(* Controller.sendMessage walks the testcase's tree with the iterators the *)
(* Testcase objects keep, and listener_run rebuilds the tree from the      *)
(* lines.  A message is sent again when step repeats it (retransmission)   *)
(* and when main runs the testcase again (retest).                         *)
(***************************************************************************)
EXTENDS Naturals, Sequences, FiniteSets

CONSTANTS
    N,            \* bound: nodes of the message's tree; node 1 is the message
    Nested,       \* whether a payload may have siblings
    Repeats,      \* how a message may be sent again: a set of "retransmission", "retest"
    MaxSends      \* bound: how often it is sent

ASSUME TreeAssumption ==
    /\ N \in Nat \ {0} /\ MaxSends \in Nat
    /\ Nested \in BOOLEAN /\ Repeats \subseteq {"retransmission", "retest"}

VARIABLES
    parent,       \* the testcase: the parent of each node but the message
    iter,         \* how many children a node's iterator has handed out
    cur,          \* the node sendMessage is at, or 0
    phase,        \* "start": its first line is due, "sub": its children are
    lines,        \* lines written and not yet read; type 1 is MSG_TYPE_ATTRIBUTE,
                  \* 2 MSG_TYPE_BLOCK_START, 3 MSG_TYPE_BLOCK_END
    sends,        \* how often the message was sent
    fresh,        \* its iterators stood at their start when it was last sent
    tree,         \* parents of the query_t nodes under construction
    query,        \* listener_run's query, or 0 for NULL
    depth,        \* its depth
    ptype,        \* type of its previous line
    published     \* what set_query stored: the node and the tree, or node 0

sender == <<parent, iter, cur, phase, sends, fresh>>
listener == <<tree, query, depth, ptype, published>>
vars == <<sender, lines, listener>>

-----------------------------------------------------------------------------
Nodes == 1..N

Children(p, n) == {m \in DOMAIN p : p[m] = n}

(* TestcaseType: the message, payloads with children, attributes without. *)
TypeOf(p, n) ==
    IF n = 1 THEN "MESSAGE" ELSE IF Children(p, n) = {} THEN "ATTRIBUTE" ELSE "PAYLOAD"

Trees == UNION {{p \in [2..k -> 1..k] : \A m \in 2..k : p[m] < m} : k \in Nodes}

(* No payload has a sibling, as in the testcases the repository ships. *)
Plain(p) ==
    \A m \in DOMAIN p : TypeOf(p, m) = "PAYLOAD" => Children(p, p[m]) = {m}

NoQuery == [root |-> 0, tree |-> << >>]

Init ==
    /\ parent \in {p \in Trees : Nested \/ Plain(p)}
    /\ iter = [n \in DOMAIN parent \cup {1} |-> 0]
    /\ cur = 1 /\ phase = "start" /\ sends = 1 /\ fresh = TRUE
    /\ lines = << >>
    /\ tree = << >> /\ query = 0 /\ depth = 0 /\ ptype = 0
    /\ published = NoQuery

-----------------------------------------------------------------------------
(* sendMessage *)

SendStart ==
    /\ cur # 0 /\ phase = "start"
    /\ lines' = Append(lines, [type |-> IF TypeOf(parent, cur) = "ATTRIBUTE" THEN 1 ELSE 2,
                               node |-> cur])
    /\ phase' = "sub"
    /\ UNCHANGED <<parent, iter, cur, sends, fresh, listener>>

(* getNextSubTestcase: the children in the order of the list. *)
NextChild(n) ==
    CHOOSE m \in Children(parent, n) :
        Cardinality({k \in Children(parent, n) : k < m}) = iter[n]

SendSub ==
    /\ cur # 0 /\ phase = "sub" /\ iter[cur] < Cardinality(Children(parent, cur))
    /\ iter' = [iter EXCEPT ![cur] = @ + 1]
    /\ cur' = NextChild(cur)
    /\ phase' = "start"
    /\ UNCHANGED <<parent, sends, fresh, lines, listener>>

SendEnd ==
    /\ cur # 0 /\ phase = "sub" /\ iter[cur] = Cardinality(Children(parent, cur))
    /\ lines' = IF TypeOf(parent, cur) = "ATTRIBUTE" THEN lines
                ELSE Append(lines, [type |-> 3, node |-> 0])
    /\ cur' = IF cur = 1 THEN 0 ELSE parent[cur]
    /\ UNCHANGED <<parent, iter, phase, sends, fresh, listener>>

Resend ==
    /\ cur = 0 /\ lines = << >> /\ sends < MaxSends
    /\ cur' = 1 /\ phase' = "start" /\ sends' = sends + 1
    /\ published' = NoQuery
    /\ UNCHANGED <<parent, lines, tree, query, depth, ptype>>

(* step repeats the message: Testcase.resetIterator resets its tree. *)
Retransmission ==
    /\ "retransmission" \in Repeats /\ Resend
    /\ iter' = [n \in DOMAIN iter |-> 0] /\ fresh' = TRUE

(* main repeats the testcase: Testcases.resetIterator resets the iterator  *)
(* over the messages and leaves those of their trees where they are.       *)
Retest ==
    /\ "retest" \in Repeats /\ Resend
    /\ UNCHANGED iter /\ fresh' = FALSE

-----------------------------------------------------------------------------
(* listener_run *)

(* Mutant of add_query_sub_message: attributes nest. *)
add_query_sub_message_Nests(n, ctype) ==
    /\ tree' = [m \in DOMAIN tree \cup {n} |-> IF m = n THEN query ELSE tree[m]]
    /\ query' = n

(* add_query_sub_message: the new node goes under query, or under its      *)
(* parent when an attribute follows an attribute.                          *)
add_query_sub_message(n, ctype) ==
    LET under == IF ctype = 1 /\ ptype = 1 THEN tree[query] ELSE query IN
    /\ tree' = [m \in DOMAIN tree \cup {n} |-> IF m = n THEN under ELSE tree[m]]
    /\ query' = n

ReadAttribute ==
    /\ lines # << >> /\ Head(lines).type = 1
    /\ add_query_sub_message(Head(lines).node, 1)
    /\ lines' = Tail(lines) /\ ptype' = 1
    /\ UNCHANGED <<sender, depth, published>>

ReadBlockStart ==
    /\ lines # << >> /\ Head(lines).type = 2
    /\ IF query = 0 THEN query' = Head(lines).node /\ tree' = << >>
       ELSE add_query_sub_message(Head(lines).node, 2)
    /\ lines' = Tail(lines) /\ ptype' = 2 /\ depth' = depth + 1
    /\ UNCHANGED <<sender, published>>

(* The block that closes the message publishes the query that is current. *)
ReadBlockEnd ==
    LET up == IF query \in DOMAIN tree THEN tree[query] ELSE query IN
    /\ lines # << >> /\ Head(lines).type = 3
    /\ lines' = Tail(lines) /\ ptype' = 3 /\ depth' = depth - 1
    /\ IF depth = 1
       THEN published' = [root |-> up, tree |-> tree] /\ query' = 0
       ELSE query' = up /\ UNCHANGED published
    /\ UNCHANGED <<sender, tree>>

Done == cur = 0 /\ lines = << >> /\ UNCHANGED vars

Next ==
    \/ SendStart \/ SendSub \/ SendEnd \/ Retransmission \/ Retest
    \/ ReadAttribute \/ ReadBlockStart \/ ReadBlockEnd
    \/ Done

Spec == Init /\ [][Next]_vars

-----------------------------------------------------------------------------
(* Once the lines of a message are read, the instance holds the message's  *)
(* tree: each payload and attribute under its parent, on every sending.    *)
TreeArrives ==
    cur = 0 /\ lines = << >> => published = [root |-> 1, tree |-> parent]

(* The weaker promise the code keeps for trees without sibling payloads:   *)
(* what the instance holds is the message, each node is where the testcase *)
(* has it also when the testcase is run again, and no node is missing      *)
(* after the first sending and after a retransmission.                     *)
NothingMisplaced ==
    cur = 0 /\ lines = << >> =>
        /\ published.root = 1
        /\ \A n \in DOMAIN published.tree :
             n \in DOMAIN parent /\ published.tree[n] = parent[n]
        /\ fresh => DOMAIN published.tree = DOMAIN parent
=============================================================================
