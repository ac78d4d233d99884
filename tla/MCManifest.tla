----------------------------- MODULE MCManifest -----------------------------
(* All manifests of two steps, the first of which holds a control action with *)
(* two actions below it: another control action around a leaf, and a leaf;    *)
(* every condition with x set and unset; and loops side by side.              *)
EXTENDS Manifest

CONSTANT MaxTrace   \* bound: leaf actions of one run

Around(kinds, bodies) ==
  UNION {{Action(k, 2, b, <<Leaf("custom")>>, <<>>, <<>>) : b \in bodies} : k \in kinds}
  \cup {Action("try", 0, b, c, f, <<>>) : b \in bodies, c \in {<<>>, <<Leaf("custom")>>},
                                          f \in {<<>>, <<Leaf("api")>>}}
  \cup {Action(k, 0, <<>>, <<>>, <<>>, <<b, <<Leaf("custom")>>>>) : k \in {"parallel", "race"}, b \in bodies}
  \cup {Action("timeout", 0, <<>>, <<>>, <<>>, <<b>>) : b \in bodies}

Kinds  == {"forEach", "while", "retry", "waitUntil", "call"}
Leaves == {Leaf(k) : k \in {"api", "set", "break", "continue", "return"}}
Inner  == Around(Kinds \cup {"if", "switch"}, {<<l>> : l \in Leaves})
Outer  == Around(Kinds, {<<i, Leaf(k)>> : i \in Inner, k \in {"api", "break"}})

Browser == {<<<<Action("retry", 1, <<Leaf("web")>>, <<>>, <<>>, <<>>)>>>>,
            <<<<Leaf("web"), Action("if", 0, <<>>, <<Leaf("web")>>, <<>>, <<>>)>>>>}

While(body) == Action("while", 2, body, <<>>, <<>>, <<>>)

Conditional ==
  {<<<<[Action(k, 1, <<Leaf(l)>>, <<Leaf("custom")>>, <<>>, <<>>) EXCEPT !.cond = c]>>>> :
     k \in {"if", "while", "waitUntil"}, l \in {"api", "set"},
     c \in {"set", "unset", "not", "equal", "greater", "zero"}}

(* Two loops in two steps, in the cases of a switch, and in two blocks. *)
Loops == LET w == <<While(<<Leaf("api")>>)>>
         IN {<<w, w>>, <<<<Action("switch", 0, w, w, <<>>, <<>>)>>>>,
             <<<<Action("if", 0, w, w, <<>>, <<>>)>>>>}

MCProgram == {<<<<o>>, <<Leaf("custom")>>>> : o \in Outer} \cup Browser \cup Loops
               \cup {<<<<Leaf("set")>>, p[1]>> : p \in Conditional} \cup Conditional

Short == Len(trace) <= MaxTrace
=============================================================================
