---------------------------- MODULE MCBuildDriver ----------------------------
(* BuildDriver with the small stages of the repository's own driver tests: a  *)
(* consumer that binds IDs, a generator that fails while another ID file is   *)
(* stale, one that repairs it later in the pass, and one that appends to what *)
(* an earlier stage exported.                                                 *)
EXTENDS BuildDriver, FiniteSets, TLC

CONSTANTS bat, code, X, Y,            \* the files of a tree
          old, new, flip, loop,       \* versions of the code, of the IDs, of the bat
          use, stale, late            \* exported files

MCFile == {bat, code, X, Y}
MCIdFile == {X, Y}
MCBytes == {old, new, flip, loop}
MCExport == {use, stale, late}
MCData == {old, new} \X {old, new}

MCLines(b) ==
  CASE b = old -> <<"use", "gen_y", "line_correction", "gen_x">>
    [] b = new -> <<"use", "gen_y", "line_correction", "gen_x", "append">>
    [] OTHER -> <<>>

(* gen_y is imported with the names of X; code "loop" needs a name of X that  *)
(* only gen_x itself could write.                                             *)
MCStageOk(s, t, x) ==
  CASE s = "gen_y" -> t[code] = flip \/ t[X] = t[code]
    [] s = "gen_x" -> t[code] # loop
    [] OTHER -> TRUE

Other(b) == IF b = old THEN new ELSE old

MCStageTree(s, t, x) ==
  CASE s = "gen_x" /\ t[code] \in {old, new} -> [t EXCEPT ![X] = t[code]]
    [] s = "gen_x" /\ t[code] = flip -> [t EXCEPT ![X] = Other(t[X])]
    [] s = "gen_y" /\ t[X] = t[code] /\ t[X] # Absent -> [t EXCEPT ![Y] = t[code]]
    [] s = "line_correction" -> [t EXCEPT ![code] = Other(@)]
    [] OTHER -> t

Bound(t) == <<IF t[X] = new THEN new ELSE old, IF t[Y] = new THEN new ELSE old>>

MCStageExports(s, t, x) ==
  CASE s = "use" /\ t[X] # t[code] -> [x EXCEPT ![use] = Bound(t), ![stale] = Bound(t)]
    [] s = "use" /\ t[X] = t[code] -> [x EXCEPT ![use] = Bound(t)]
    [] s = "append" -> [x EXCEPT ![late] = x[use]]
    [] OTHER -> x

TreeOf(b, c, x, y) == (bat :> b) @@ (code :> c) @@ (X :> x) @@ (Y :> y)
MCSource == {TreeOf(old, old, old, old), TreeOf(new, new, old, old),
             TreeOf(old, flip, old, old), TreeOf(old, loop, old, new)}
MCLeftover == {{}, {use, late}}
MCEdit == {[overlay |-> FALSE, file |-> code, bytes |-> new],
           [overlay |-> FALSE, file |-> Y, bytes |-> Absent],
           [overlay |-> TRUE, file |-> code, bytes |-> new],
           [overlay |-> TRUE, file |-> bat, bytes |-> flip],
           [overlay |-> TRUE, file |-> Y, bytes |-> old],
           [overlay |-> TRUE, file |-> Y, bytes |-> Absent]}
=============================================================================
