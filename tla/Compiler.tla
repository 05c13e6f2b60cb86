------------------------------ MODULE Compiler ------------------------------
(* The Module System compiler, src/game/module_system/process_*.py: what its  *)
(* stages do to the registers of global variables and of quick strings, which *)
(* they hand on to each other in files of the export directory.               *)
(*                                                                            *)
(* A stage is a process of its own: it loads the registers, goes through the  *)
(* code of its units (scripts, dialog lines, items, ...) operand by operand,  *)
(* and saves them.  A unit has blocks (conditions and consequences), each     *)
(* with its own local variables.  Indices count from 1 here.                  *)
EXTENDS Integers, Sequences, FiniteSets, SequencesExt

CONSTANTS
  Global, Local, Text, Id, \* what an operand may name
  Known,        \* the ids of objects that exist
  Stored(_),    \* a text as it is stored, with underscores for blanks
  Empty,        \* the stored empty text
  Key,          \* ids of quick strings
  Keys(_),      \* those a text may get, as they are tried: longer and longer prefixes
  Part,         \* of a module: its scripts, dialogs, items, ...
  Stages,       \* the parts that each stage goes through; as build_module.bat orders them
  ScanOrder,    \* the parts that process_global_variables.py goes through
  Caught,       \* the parts whose stage catches exceptions, unit by unit
  Module,       \* the modules the model starts from
  Seed,         \* the contents of the source directory's variables.txt
  Later(_)      \* what the user may make of a module before the next build

ASSUME CompilerAssumption ==
  /\ Known \subseteq Id
  /\ Stages \in Seq(Seq(Part)) /\ ScanOrder \in Seq(Part)
  /\ \A t \in Text : Keys(t) \in Seq(Key)

(* An entry of variables.txt; a global that nothing assigns gets one with its *)
(* $ sign, which no later look-up finds.                                      *)
Variable == [name : Global, dollar : BOOLEAN]
Plain(g) == [name |-> g, dollar |-> FALSE]

(* What the last operands of a statement are to the compiler: the first one   *)
(* of an operation in lhs_operations is assigned, that of one in              *)
(* global_lhs_operations changed, all others are used.                        *)
Role == {"assigned", "changed", "used"}
Operand == [role : Role, kind : {"global"}, name : Global]
             \cup [role : Role, kind : {"local"}, name : Local]
             \cup [role : Role, kind : {"text"}, name : Text]
             \cup [role : Role, kind : {"id"}, name : Id]
             \cup [role : Role, kind : {"blank"}, name : {""}]
Unit == Seq(Seq(Operand))

ASSUME ModuleAssumption ==
  /\ Module \subseteq [Part -> Seq(Unit)] /\ Seed \subseteq Seq(Variable)
  /\ \A m \in Module : Later(m) \subseteq [Part -> Seq(Unit)]

VARIABLES
  module, \* the module's code
  seed,   \* variables.txt of the source directory
  disk,   \* variables.txt, variable_uses.txt, quick_strings.txt of the export directory
  stage,  \* the running process
  failed, \* an "ERROR" has been printed or a process has died
  code,   \* the operands that have been written, each with its place
  warned, \* the variables reported as never used
  before  \* the builds before, at most one: their variables and their code

vars == <<module, seed, disk, stage, failed, code, warned, before>>

-----------------------------------------------------------------------------
(* Process 0 is process_global_variables.py, the last one                     *)
(* process_global_variables_unused.py.                                        *)
Final == Len(Stages) + 1
Parts(n) == IF n = 0 THEN ScanOrder ELSE Stages[n]

(* Where a process begins; part, unit, block and i are its place in the code. *)
Ready(n) == [pc |-> "load", n |-> n, part |-> 1, unit |-> 1, block |-> 1, i |-> 1,
             vars |-> <<>>, uses |-> <<>>, locals |-> <<>>, texts |-> <<>>]

At(pc) == stage.pc = pc
InPart == At("run") /\ stage.part <= Len(Parts(stage.n))
Here == module[Parts(stage.n)[stage.part]]
InUnit == InPart /\ stage.unit <= Len(Here)
InBlock == InUnit /\ stage.block <= Len(Here[stage.unit])
Block == Here[stage.unit][stage.block]
AtOperand == InBlock /\ stage.i <= Len(Block)
This == Block[stage.i]

Advanced == [stage EXCEPT !.i = @ + 1]
UnitLeft == [stage EXCEPT !.unit = @ + 1, !.block = 1, !.i = 1, !.locals = <<>>]

-----------------------------------------------------------------------------
(* The registers                                                              *)

(* Where a loop that looks for one of the indices stops, if anywhere.         *)
Earliest(indices) == {j \in indices : \A k \in indices : j <= k}

IndexOf(entries, e) == Earliest({j \in DOMAIN entries : entries[j] = e})

(* add_variable, for what a scanned operation assigns: counted one down.      *)
Added(register, g) ==
  IF Plain(g) \in ToSet(register.vars)
  THEN [register EXCEPT !.uses = [j \in DOMAIN @ |->
          IF j \in IndexOf(register.vars, Plain(g)) THEN @[j] - 1 ELSE @[j]]]
  ELSE [register EXCEPT !.vars = Append(@, Plain(g)), !.uses = Append(@, -1)]

\* The last hit.
KeyIndex(texts, key) ==
    {j \in DOMAIN texts : texts[j].key = key /\ \A k \in DOMAIN texts : texts[k].key = key => k <= j}

(* Mutant of MayHave: a key that is taken is taken for the text.              *)
MayHave_ByKey(texts, key, t) == TRUE

(* The key is free, or it is that of the same text.                           *)
MayHave(texts, key, t) == \A j \in KeyIndex(texts, key) : texts[j].text = Stored(t)

(* The choice of insert_quick_string_with_auto_id, as a place in Keys(t);     *)
(* without one the function fails (has_key of a list).                        *)
Choice(texts, t) == Earliest({c \in DOMAIN Keys(t) : MayHave(texts, Keys(t)[c], t)})

-----------------------------------------------------------------------------
NoFiles == [vars |-> <<>>, uses |-> <<>>, texts |-> <<>>]

Init ==
  /\ module \in Module /\ seed \in Seed /\ disk = NoFiles
  /\ stage = [Ready(0) EXCEPT !.pc = "init"]
  /\ failed = FALSE /\ code = {} /\ warned = {} /\ before = <<>>

(* Mutant of Initialize: the source directory's variables.txt is not read.    *)
Initialize_Unseeded ==
  /\ At("init")
  /\ disk' = NoFiles
  /\ stage' = Ready(0)
  /\ UNCHANGED <<module, seed, failed, code, warned, before>>

(* process_init.py: a variable of the source directory counts as used once.   *)
Initialize ==
  /\ At("init")
  /\ disk' = [vars |-> seed, uses |-> [j \in DOMAIN seed |-> 1], texts |-> <<>>]
  /\ stage' = Ready(0)
  /\ UNCHANGED <<module, seed, failed, code, warned, before>>

(* load_quick_strings: a line that does not have two words, because its text  *)
(* is empty, is passed over.                                                  *)
Loaded(texts) ==
  LET whole == {j \in DOMAIN texts : texts[j].text # Empty}
  IN [k \in 1..Cardinality(whole) |->
        texts[CHOOSE j \in whole : Cardinality({i \in whole : i <= j}) = k]]

(* The registers are loaded.                                                  *)
Load ==
  /\ At("load") /\ stage.n < Final
  /\ stage' = [stage EXCEPT !.pc = "run", !.vars = disk.vars, !.uses = disk.uses,
                 !.texts = Loaded(disk.texts)]
  /\ UNCHANGED <<module, seed, disk, failed, code, warned, before>>

Saved == [vars |-> stage.vars, uses |-> stage.uses,
          texts |-> IF stage.n = 0 THEN disk.texts ELSE stage.texts]

Save ==
  /\ At("run") /\ ~InPart
  /\ disk' = Saved /\ stage' = Ready(stage.n + 1)
  /\ UNCHANGED <<module, seed, failed, code, warned, before>>

NextPart ==
  /\ InPart /\ ~InUnit
  /\ stage' = [UnitLeft EXCEPT !.part = @ + 1, !.unit = 1]
  /\ UNCHANGED <<module, seed, disk, failed, code, warned, before>>

NextUnit ==
  /\ InUnit /\ ~InBlock
  /\ stage' = UnitLeft
  /\ UNCHANGED <<module, seed, disk, failed, code, warned, before>>

NextBlock ==
  /\ InBlock /\ ~AtOperand
  /\ stage' = [stage EXCEPT !.block = @ + 1, !.i = 1, !.locals = <<>>]
  /\ UNCHANGED <<module, seed, disk, failed, code, warned, before>>

-----------------------------------------------------------------------------
(* Operands                                                                   *)

(* Mutant of Declares: val_add and the like do not count.                     *)
Declares_LhsOnly(o) == o.kind = "global" /\ o.role = "assigned"

Declares(o) == o.kind = "global" /\ o.role \in {"assigned", "changed"}

(* The first character of "" is asked for, or no key is left for a text.      *)
Raises(o) ==
  IF stage.n = 0 THEN o.kind = "blank" /\ o.role # "used"
  ELSE o.kind = "blank" \/ (o.kind = "text" /\ Choice(stage.texts, o.name) = {})

(* compile_global_vars_in_statement                                           *)
Scan ==
  /\ AtOperand /\ stage.n = 0 /\ ~Raises(This)
  /\ LET register == [vars |-> stage.vars, uses |-> stage.uses]
         added == IF Declares(This) THEN Added(register, This.name) ELSE register
     IN stage' = [Advanced EXCEPT !.vars = added.vars, !.uses = added.uses]
  /\ UNCHANGED <<module, seed, disk, failed, code, warned, before>>

Compiles(kind) == AtOperand /\ stage.n # 0 /\ This.kind = kind /\ ~Raises(This)

(* to is the index the operand gets, 0 for none.                              *)
Written(to) ==
  code' = code \cup {[place |-> <<stage.n, stage.part, stage.unit, stage.block, stage.i>>, to |-> to,
                      role |-> This.role, kind |-> This.kind, name |-> This.name]}

Counted(j) == [stage.uses EXCEPT ![j] = @ + 1]

(* get_variable: a global that is not there is warned of and gets an entry.   *)
UseGlobal ==
  /\ Compiles("global")
  /\ \/ \E j \in IndexOf(stage.vars, Plain(This.name)) :
           stage' = [Advanced EXCEPT !.uses = Counted(j)] /\ Written(j)
     \/ /\ Plain(This.name) \notin ToSet(stage.vars)
        /\ stage' = [Advanced EXCEPT !.uses = Append(@, 0),
                       !.vars = Append(@, [name |-> This.name, dollar |-> TRUE])]
        /\ Written(Len(stage.vars) + 1)
  /\ UNCHANGED <<module, seed, disk, failed, warned, before>>

(* A local that was assigned nowhere in the block is an error.                *)
UseLocal ==
  /\ Compiles("local")
  /\ \E locals \in {IF This.role = "assigned" /\ This.name \notin ToSet(stage.locals)
                     THEN Append(stage.locals, This.name) ELSE stage.locals} :
        /\ stage' = [Advanced EXCEPT !.locals = locals]
        /\ \/ \E j \in IndexOf(locals, This.name) : Written(j) /\ failed' = failed
           \/ This.name \notin ToSet(locals) /\ Written(0) /\ failed' = TRUE
  /\ UNCHANGED <<module, seed, disk, warned, before>>

UseText ==
  /\ Compiles("text")
  /\ \E c \in Choice(stage.texts, This.name) : \E key \in {Keys(This.name)[c]} :
        \/ \E j \in KeyIndex(stage.texts, key) : stage' = Advanced /\ Written(j)
        \/ /\ KeyIndex(stage.texts, key) = {}
           /\ stage' = [Advanced EXCEPT
                          !.texts = Append(@, [key |-> key, text |-> Stored(This.name)])]
           /\ Written(Len(stage.texts) + 1)
  /\ UNCHANGED <<module, seed, disk, failed, warned, before>>

UseId ==
  /\ Compiles("id")
  /\ stage' = Advanced /\ Written(0)
  /\ failed' = (failed \/ This.name \notin Known)
  /\ UNCHANGED <<module, seed, disk, warned, before>>

(* An exception ends the unit where it is caught, and otherwise the process,  *)
(* which then saves nothing.                                                  *)
Raise ==
  /\ AtOperand /\ Raises(This)
  /\ failed' = TRUE
  /\ stage' = IF stage.n = 0 \/ Parts(stage.n)[stage.part] \in Caught THEN UnitLeft ELSE Ready(stage.n + 1)
  /\ UNCHANGED <<module, seed, disk, code, warned, before>>

(* process_global_variables_unused.py                                         *)
Warn ==
  /\ At("load") /\ stage.n = Final
  /\ warned' = {disk.vars[j] : j \in {k \in DOMAIN disk.vars : disk.uses[k] = 0}}
  /\ stage' = [stage EXCEPT !.pc = "done"]
  /\ UNCHANGED <<module, seed, disk, failed, code, before>>

(* The next build, after the user's edits, with the variables.txt of this     *)
(* build copied into the source directory or not.  The model has one.         *)
Rebuild ==
  /\ At("done") /\ ~failed /\ before = <<>>
  /\ module' \in {module} \cup Later(module) /\ seed' \in {seed, disk.vars}
  /\ before' = <<[vars |-> disk.vars, code |-> code]>>
  /\ stage' = [Ready(0) EXCEPT !.pc = "init"]
  /\ code' = {} /\ warned' = {}
  /\ UNCHANGED <<disk, failed>>

Next == \/ Initialize \/ Load \/ Save \/ NextPart \/ NextUnit \/ NextBlock
        \/ Scan \/ UseGlobal \/ UseLocal \/ UseText \/ UseId \/ Raise
        \/ Warn \/ Rebuild

Spec == Init /\ [][Next]_vars

-----------------------------------------------------------------------------
(* Properties                                                                 *)

Accepted == At("done") /\ ~failed
Mentions(kind) == {m \in code : m.kind = kind}

(* The globals that the module's scanned code, or the seed, makes known.      *)
Assigned ==
  {g \in Global : Plain(g) \in ToSet(seed)}
    \cup {g \in Global : \E name \in ToSet(ScanOrder) : \E unit \in ToSet(module[name]) :
            \E block \in ToSet(unit) : \E o \in ToSet(block) :
               o.kind = "global" /\ o.role # "used" /\ o.name = g}

(* All stages mean the same variable by the same global: each of its mentions *)
(* has the one index under which variables.txt has its name, though every     *)
(* stage is a process of its own and any of them may extend the register.     *)
GlobalsHaveOneIndex ==
  Accepted => \A m \in Mentions("global") :
    /\ disk.vars[m.to].name = m.name
    /\ m.name \in Assigned => m.to \in IndexOf(disk.vars, Plain(m.name))

(* Each text that the code refers to is, in the file of quick strings that    *)
(* the last stage leaves, its own, though ids are cut short and shared.  (An  *)
(* empty text is left out when the file is next loaded, and moves the texts   *)
(* after it.)                                                                 *)
TextsAreTheirOwn ==
  Accepted /\ (\A m \in Mentions("text") : Stored(m.name) # Empty) =>
    \A m \in Mentions("text") : disk.texts[m.to].text = Stored(m.name)

(* With the variables.txt of the build before in the source directory, what   *)
(* savegames hold stays where it is: every variable keeps its index, whatever *)
(* the user has added to the module.                                          *)
IndicesAreKept ==
  Accepted => \A b \in ToSet(before) : IsPrefix(b.vars, seed) =>
    /\ IsPrefix(b.vars, disk.vars)
    /\ \A m \in Mentions("global"), old \in b.code :
         (old.kind = "global" /\ old.name = m.name /\ b.vars[old.to] = Plain(old.name))
           => m.to = old.to
=============================================================================
