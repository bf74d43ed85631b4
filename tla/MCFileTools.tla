----------------------------- MODULE MCFileTools -----------------------------
(***************************************************************************)
(* Values for the runs of FileTools: a workspace, and a route that leads   *)
(* out of it; one file there at the start, one that can be created behind  *)
(* the route, and the one that is read back in its place.                  *)
(***************************************************************************)
EXTENDS FileTools, TLC

MCRoot == <<"ws">>

MCRoutes == [prefix \in {<<"large">>} |-> <<"elsewhere">>]

MCPaths == {<<"large", "b">>, <<"elsewhere", "b">>}

MCExisting == {<<"ws", "elsewhere", "b">>}

\* States that differ only in what matters to nobody any more are explored once:
\* in a call that is over and has changed nothing, in the session of one that it
\* neither awaits nor saw succeed, in the text that an edit has looked for and
\* keeps.
MCView ==
  LET Spent(n) == calls[n].phase = "ended" /\ ~calls[n].changed
      Known(n) == calls[n].awaited \/ calls[n].result = "ok"
      Sought(n) == calls[n].phase = "read" \/ ~calls[n].keep
  IN  <<[n \in DOMAIN calls |->
           IF Spent(n) THEN "spent"
           ELSE [calls[n] EXCEPT !.met = {m \in @ : ~Spent(m)},
                                 !.session = IF Known(n) THEN @ ELSE Nowhere,
                                 !.texts = IF Known(n) \/ calls[n].phase # "ended"
                                             THEN @ ELSE {},
                                 !.old = IF Sought(n) THEN @ ELSE 0]],
        disk, records>>

MCSymmetry == Permutations(Sessions)
=============================================================================
