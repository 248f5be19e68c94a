------------------------------ MODULE MCCaches ------------------------------
(* Caches for TLC.  x is what is assigned and searched for; y is only an      *)
(* argument of functions, with which frames are not empty and symbits differ. *)
EXTENDS Caches, TLC

CONSTANTS x, y

MCSymbits == (x :> {1, 2}) @@ (y :> {2, 3})

\* Frames that are not empty, with and without x.
MCFormals == {{y}, {x, y}}

\* Of the cells of a symbol it matters how many there are, and which caches have one of
\* them; not which of Copies they are, which only serves to tell these from removed ones.
NumberOfCells == [e \in Frames |-> [s \in Syms |-> Len(cells[e][s])]]
ActiveIn == {<<c[1], c[2]>> : c \in active}
HasCell(s, e, k) == e \in Frames /\ Contains(cells[e][s], k)

\* The caches of a symbol that is not searched for are never read, nor is what a search
\* notes that is not for a function.
LastNoted == [s \in Assigned |-> <<LASTSYMENV[s], HasCell(s, LASTSYMENV[s], LASTSYMBINDING[s]),
                                   LASTENVNOTFOUND[s]>>]
GloballyNoted == [s \in Assigned |-> <<cache[s].env, HasCell(s, cache[s].env, cache[s].copy),
                                       cache[s] = [env |-> LASTSYMENV[s], copy |-> LASTSYMBINDING[s]]>>]
Noted == [i \in DOMAIN searches |->
            IF searches[i].kind = "fun" THEN searches[i] ELSE [searches[i] EXCEPT !.nf = None]]

View == <<envs, ENVSYMBITS, NumberOfCells, ActiveIn, base, LastNoted, GloballyNoted, Noted>>

\* Environments are only tested for equality.
Symmetry == Permutations(Envs)
=============================================================================
