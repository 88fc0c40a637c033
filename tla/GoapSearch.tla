------------------------------ MODULE GoapSearch ------------------------------
(***************************************************************************)
(* The search of the planner of combat (goap.rs) over the actions of Goap. *)
(***************************************************************************)
EXTENDS Goap

(* search: the node of least cost and distance is taken from the open ones *)
(* (of several, any; the heap takes one of them), and a state is expanded  *)
(* the first time only.                                                    *)

Node(state, cost, acts) == [state |-> state, cost |-> cost, acts |-> acts]
F(node, goal) == node.cost + 100 * Distance(node.state, goal)
Best(open, goal) ==
    FoldSet(LAMBDA n, m : IF m = <<>> \/ F(n, goal) < F(m[1], goal) THEN <<n>> ELSE m, <<>>, open)[1]
Successors(node, actions, visited) ==
    {Node(Apply(a, node.state), node.cost + a.cost, Append(node.acts, a.name)) :
        a \in {b \in actions : CanRun(b, node.state) /\ Apply(b, node.state) \notin visited}}

RECURSIVE Expand(_, _, _, _, _)
Expand(open, visited, goal, actions, depth) ==
    IF open = {} THEN <<>>
    ELSE LET node == Best(open, goal)
             rest == open \ {node}
         IN IF goal \subseteq node.state THEN <<node.acts>>
            ELSE IF Len(node.acts) >= depth \/ node.state \in visited
                 THEN Expand(rest, visited, goal, actions, depth)
                 ELSE Expand(rest \cup Successors(node, actions, visited \cup {node.state}),
                             visited \cup {node.state}, goal, actions, depth)

(* <<>> when there is no way, otherwise <<the actions' names>>.            *)
Search(start, goal, actions, depth) == Expand({Node(start, 0, <<>>)}, {}, goal, actions, depth)
===============================================================================
