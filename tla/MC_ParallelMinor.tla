------------------------- MODULE MC_ParallelMinor -------------------------
(***************************************************************************)
(* Small heaps for ParallelMinor.  a, b, c are young (b tenured, c of      *)
(* medium size), x and y old, l a large object.  a and b both refer to c,  *)
(* so the two tasks race to copy it; c refers back to a (a cycle).         *)
(***************************************************************************)
EXTENDS ParallelMinor, TLC

CONSTANTS a, b, c, e, g, r, s, x, y, l

MC_Young == {a, b, c}
MC_OldSeq == <<x, y>>
MC_LargeSeq == <<l>>
MC_Field == (a :> <<c>>) @@ (b :> <<c>>) @@ (c :> <<a>>)
            @@ (x :> <<b>>) @@ (y :> <<a>>) @@ (l :> <<a>>)
MC_Roots == <<a>>
MC_Size == (a :> 1) @@ (b :> 1) @@ (c :> 2)
MC_Tenured == {b}
MC_OldAddr == (x :> 1) @@ (y :> 3)

\* Two tasks race on the medium object c while task 0's Lab already holds e:
\* the loser's undo_alloc moves its Lab top below the Lab, onto b's copy.
U_Young == {a, b, c, e, g}
U_Field == (a :> <<e, c, g>>) @@ (b :> <<c>>) @@ (c :> <<Nil>>) @@ (e :> <<Nil>>)
           @@ (g :> <<Nil>>) @@ (x :> <<b>>) @@ (y :> <<Nil>>) @@ (l :> <<Nil>>)
U_Size == (a :> 1) @@ (b :> 1) @@ (c :> 2) @@ (e :> 1) @@ (g :> 1)

\* The scenario of spec section 8: the root refers to a, a refers to b,
\* both small and neither tenured.  a is copied by the root scan, b by a task.
S_Young == {a, b}
S_Field == (a :> <<b>>) @@ (b :> <<Nil>>) @@ (x :> <<Nil>>) @@ (y :> <<Nil>>) @@ (l :> <<Nil>>)
S_Roots == <<a>>
S_Size == (a :> 1) @@ (b :> 1)
NoTenured == {}

\* The first root refers to b, the second to a, which refers to b; a is
\* tenured and the old generation is full, so its promotion fails.
F_Roots == <<b, a>>
F_Tenured == {a}

\* b is tenured and referenced from the old object x: with the old
\* generation full its sequential promotion fails, so y keeps the original
\* of c.  The roots a and g were copied before that and both refer to c:
\* the tasks race on c, and the task that reaches b fails to promote it as
\* well and marks its header; the Nil fields of x and c are skipped.
Q_Young == {a, b, c, g}
Q_Field == (a :> <<c, b>>) @@ (b :> <<c>>) @@ (c :> <<Nil>>) @@ (g :> <<c>>)
           @@ (x :> <<b, Nil>>) @@ (y :> <<c>>) @@ (l :> <<a>>)
Q_Roots == <<a, g>>
Q_Size == (a :> 1) @@ (b :> 1) @@ (c :> 2) @@ (g :> 1)

\* No object is a reference array.
NoArrays == {}

\* The main heap adds the tenured reference array r to the one above.  The
\* root scan promotes r to old words 5-9, its slots at 7, 8 and 9: the
\* first two on card 3, the last on card 4.  Slots 1 and 3 refer to the
\* small objects s and e: the task that traces r copies and pushes both,
\* so its second push spills the local buffer (defensive_push).
M_Young == MC_Young \cup {r, s, e}
M_Arrays == {r}
M_Field == (r :> <<s, Nil, e>>) @@ (s :> <<Nil>>) @@ (e :> <<Nil>>) @@ MC_Field
M_Roots == <<a, r>>
M_Size == (r :> 5) @@ (s :> 1) @@ (e :> 1) @@ MC_Size
M_Tenured == {b, r}
=============================================================================
