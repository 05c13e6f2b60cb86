----------------------------- MODULE MCCompiler -----------------------------
(* Compiler on small modules: items, whose code is not scanned, scripts, and  *)
(* dialogs, whose exceptions are caught line by line.                         *)
EXTENDS Compiler, TLC

MCPart == {"items", "scripts", "triggers", "dialogs"}
MCStages == <<<<"items">>, <<"scripts">>, <<"triggers", "dialogs">>>>
MCScanOrder == <<"triggers", "dialogs", "scripts">>

MCGlobal == {"w", "x", "y", "z"}
MCText == {"long a", "long_a", "long b", "hi!", "hi?", "empty"}

MCStored(t) == CASE t = "long a" -> "long_a" [] t = "empty" -> "" [] OTHER -> t

(* The first two texts are stored alike; the third shares the beginning of    *)
(* their ids; "hi!" and "hi?" have one short id between them.                 *)
MCKeys(t) ==
  CASE t \in {"long a", "long_a"} -> <<"long", "long_a">>
    [] t = "long b" -> <<"long", "long_b">>
    [] t \in {"hi!", "hi?"} -> <<"hi">>
    [] OTHER -> <<"">>

Assign(kind, name) == [role |-> "assigned", kind |-> kind, name |-> name]
Change(kind, name) == [role |-> "changed", kind |-> kind, name |-> name]
Use(kind, name) == [role |-> "used", kind |-> kind, name |-> name]

Blocks ==
  {<<Assign("global", "x"), Use("global", "y")>>,
   <<Change("global", "y"), Use("text", "long a"), Use("text", "long b")>>,
   <<Assign("local", "l"), Use("local", "l"), Use("text", "long_a")>>,
   <<Use("local", "l"), Use("text", "long b")>>,
   <<Use("text", "hi!"), Use("text", "hi?"), Use("global", "x")>>,
   <<Use("global", "z"), Assign("blank", ""), Assign("global", "z")>>,
   <<Use("text", "empty"), Use("text", "hi?"), Use("global", "z")>>,
   <<Use("id", "trp_player"), Assign("global", "z"), Use("id", "trp_nobody")>>,
   <<Use("text", "long b"), Assign("global", "z"), Assign("global", "x")>>}

(* Items and triggers.                                                        *)
Others ==
  {[items |-> <<>>, triggers |-> <<>>],
   [items |-> <<>>, triggers |-> << <<<<Assign("global", "x"), Use("blank", "")>>>> >>],
   [items |-> << <<<<Assign("global", "y"), Use("global", "x"), Use("text", "hi!")>>>> >>,
    triggers |-> << <<<<Use("global", "y")>>, <<Change("global", "w"), Use("text", "long b")>>>> >>]}

MCModule ==
  {[part \in MCPart |->
      CASE part = "items" -> o.items
        [] part = "triggers" -> o.triggers
        [] part = "scripts" -> << <<a>> >>
        [] OTHER -> << <<b, c>>, <<a>> >>] : o \in Others, a \in Blocks, b \in Blocks, c \in Blocks}

MCSeed == {<<>>, <<Plain("y"), Plain("z")>>}

(* A script is added before the others.                                       *)
MCLater(m) == {[m EXCEPT !["scripts"] = << <<<<Assign("global", "w"), Use("text", "long b")>>>> >> \o @]}
=============================================================================
