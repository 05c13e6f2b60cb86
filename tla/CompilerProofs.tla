--------------------------- MODULE CompilerProofs ---------------------------
(* Proofs about Compiler, for every module, every seed and every list of      *)
(* stages.                                                                    *)
EXTENDS Compiler, FiniteSetTheorems, TLAPS

-----------------------------------------------------------------------------
(* The register of variables.                                                 *)

\* t begins with s.
Begins(s, t) == Len(s) <= Len(t) /\ \A k \in 1..Len(s) : t[k] = s[k]

\* Begins is IsPrefix of the community modules, element by element.
LEMMA BeginsIsPrefix ==
    ASSUME NEW T, NEW s \in Seq(T), NEW t \in Seq(T)
    PROVE  IsPrefix(s, t) <=> Begins(s, t)
  BY DEF IsPrefix, Begins

\* Registers that grow again begin as before.
LEMMA BeginsIsTransitive ==
    ASSUME NEW T, NEW s \in Seq(T), NEW t \in Seq(T), NEW u \in Seq(T),
           Begins(s, t), Begins(t, u)
    PROVE  Begins(s, u)
  BY DEF Begins

\* Appending an entry keeps the others.
LEMMA AppendBegins ==
    ASSUME NEW T, NEW s \in Seq(T), NEW e \in T
    PROVE  /\ Append(s, e) \in Seq(T) /\ Begins(s, Append(s, e)) /\ Begins(s, s)
           /\ Len(Append(s, e)) = Len(s) + 1 /\ Append(s, e)[Len(s) + 1] = e
  BY DEF Begins

\* An entry stays where it is when others are appended.
LEMMA IndexIsStable ==
    ASSUME NEW T, NEW s \in Seq(T), NEW t \in Seq(T), Begins(s, t),
           NEW e, NEW j \in IndexOf(s, e)
    PROVE  j \in IndexOf(t, e)
  <1>1. j \in 1..Len(s) /\ s[j] = e /\ \A k \in 1..Len(s) : s[k] = e => j <= k
    BY DEF IndexOf, Earliest
  <1>2. j \in 1..Len(t) /\ t[j] = e /\ \A k \in 1..Len(t) : t[k] = e => j <= k
    BY <1>1 DEF Begins
  <1> QED BY <1>2 DEF IndexOf, Earliest

\* A look-up finds one index at most, and there the entry.
LEMMA IndexIsUnique ==
    ASSUME NEW T, NEW s \in Seq(T), NEW e, NEW j \in IndexOf(s, e), NEW k \in IndexOf(s, e)
    PROVE  j = k /\ j \in 1..Len(s) /\ s[j] = e
  BY DEF IndexOf, Earliest

\* What is in a register is in every longer one.
LEMMA EntriesStay ==
    ASSUME NEW T, NEW s \in Seq(T), NEW t \in Seq(T), Begins(s, t), NEW e \in ToSet(s)
    PROVE  e \in ToSet(t)
  <1>1. PICK k \in 1..Len(s) : s[k] = e
    BY DEF ToSet
  <1>2. k \in 1..Len(t) /\ t[k] = e
    BY <1>1 DEF Begins
  <1> QED BY <1>2 DEF ToSet

\* What add_variable does to the register: it grows at its end at most, and has
\* the name afterwards.
LEMMA AddedFacts ==
    ASSUME NEW vs \in Seq(Variable), NEW us, NEW g \in Global
    PROVE  LET added == Added([vars |-> vs, uses |-> us], g) IN
           /\ added.vars \in Seq(Variable)
           /\ Begins(vs, added.vars) /\ Plain(g) \in ToSet(added.vars)
  <1> DEFINE register == [vars |-> vs, uses |-> us]
             longer == Append(vs, Plain(g))
  <1>1. Plain(g) \in Variable
    BY DEF Plain, Variable
  <1>2. longer \in Seq(Variable) /\ Begins(vs, longer) /\ Begins(vs, vs)
    BY <1>1, AppendBegins
  <1>3. CASE Plain(g) \in ToSet(vs)
    <2>1. Added(register, g).vars = vs
      BY <1>3 DEF Added
    <2> QED BY <1>2, <1>3, <2>1
  <1>4. CASE Plain(g) \notin ToSet(vs)
    <2>1. Added(register, g).vars = longer
      BY <1>4 DEF Added
    <2>2. Len(vs) + 1 \in DOMAIN longer /\ longer[Len(vs) + 1] = Plain(g)
      BY <1>1, AppendBegins
    <2> HIDE DEF longer
    <2>3. Plain(g) \in ToSet(longer)
      BY <2>2 DEF ToSet
    <2> QED BY <1>2, <2>1, <2>3
  <1> QED BY <1>3, <1>4

-----------------------------------------------------------------------------
(* Types: those of the registers of variables and of the process' place.      *)

Fields == {"pc", "n", "part", "unit", "block", "i", "vars", "uses", "locals", "texts"}

Types ==
  /\ module \in [Part -> Seq(Unit)] /\ seed \in Seq(Variable)
  /\ disk.vars \in Seq(Variable) /\ stage.vars \in Seq(Variable)
  /\ DOMAIN stage = Fields
  /\ stage.pc \in {"init", "load", "run", "done"} /\ stage.n \in 0..Final
  /\ stage.part \in Nat \ {0} /\ stage.unit \in Nat \ {0}
  /\ stage.block \in Nat \ {0} /\ stage.i \in Nat \ {0}
  /\ At("run") => stage.n < Final
  /\ At("init") => stage.n = 0
  /\ At("load") => stage.part = 1 /\ stage.unit = 1 /\ stage.block = 1 /\ stage.i = 1
  /\ IF before = <<>> THEN module \in Module ELSE before[1].vars \in Seq(Variable)

\* Every process but the last goes through parts of the module.
LEMMA PartsAreParts ==
    /\ Final \in Nat \ {0}
    /\ \A n \in 0..(Final - 1) : Parts(n) \in Seq(Part)
  BY CompilerAssumption DEF Final, Parts

\* The code that the process is at.
LEMMA Places ==
    ASSUME Types
    PROVE  /\ InPart => Here \in Seq(Unit)
           /\ InBlock => Block \in Seq(Operand)
           /\ AtOperand => This \in Operand
  <1>1. ASSUME InPart PROVE Here \in Seq(Unit)
    <2>1. Parts(stage.n) \in Seq(Part) /\ stage.part \in 1..Len(Parts(stage.n))
      BY <1>1, PartsAreParts DEF InPart, Types
    <2>2. Parts(stage.n)[stage.part] \in Part
      BY <2>1
    <2> QED BY <2>2 DEF Types, Here
  <1>2. ASSUME InBlock PROVE Block \in Seq(Operand)
    <2>1. InPart /\ stage.unit \in 1..Len(Here)
      BY <1>1, <1>2 DEF InBlock, InUnit, Types
    <2>2. Here[stage.unit] \in Seq(Seq(Operand))
      BY <1>1, <2>1 DEF Unit
    <2>3. stage.block \in 1..Len(Here[stage.unit])
      BY <1>2, <2>2 DEF InBlock, Types
    <2> QED BY <2>2, <2>3 DEF Block
  <1>3. ASSUME AtOperand PROVE This \in Operand
    <2>1. Block \in Seq(Operand)
      BY <1>2, <1>3 DEF AtOperand
    <2>2. stage.i \in 1..Len(Block)
      BY <1>3, <2>1 DEF AtOperand, Types
    <2> QED BY <2>1, <2>2 DEF This
  <1> QED BY <1>1, <1>2, <1>3

\* An operand of kind global names one.
LEMMA GlobalOperands ==
    ASSUME NEW o \in Operand, o.kind = "global"
    PROVE  o.name \in Global /\ o.role \in Role
  BY DEF Operand

\* The step stays in the process.
Held == At("run") /\ DOMAIN stage' = Fields /\ stage'.pc = "run" /\ stage'.n = stage.n

\* What an operand of the scan does to the register.
LEMMA Scanned ==
    ASSUME Types, Scan
    PROVE  /\ Held
           /\ stage'.part = stage.part /\ stage'.unit = stage.unit
           /\ stage'.block = stage.block /\ stage'.i = stage.i + 1
           /\ stage'.vars \in Seq(Variable) /\ Begins(stage.vars, stage'.vars)
           /\ Declares(This) => Plain(This.name) \in ToSet(stage'.vars)
  <1> DEFINE register == [vars |-> stage.vars, uses |-> stage.uses]
             added == IF Declares(This) THEN Added(register, This.name) ELSE register
  <1>1. stage' = [Advanced EXCEPT !.vars = added.vars, !.uses = added.uses] /\ At("run")
    BY DEF Scan, AtOperand, InBlock, InUnit, InPart
  <1>2. /\ added.vars \in Seq(Variable) /\ Begins(stage.vars, added.vars)
        /\ Declares(This) => Plain(This.name) \in ToSet(added.vars)
    <2>1. CASE Declares(This)
      <3>1. This.name \in Global
        BY <2>1, Places, GlobalOperands DEF Scan, Declares
      <3> QED BY <2>1, <3>1, AddedFacts DEF Types
    <2>2. CASE ~Declares(This)
      BY <2>2 DEF Types, Begins
    <2> QED BY <2>1, <2>2
  <1> HIDE DEF added
  <1>3. /\ Held /\ stage'.part = stage.part /\ stage'.unit = stage.unit
        /\ stage'.block = stage.block /\ stage'.i = stage.i + 1 /\ stage'.vars = added.vars
    BY <1>1 DEF Types, Fields, Advanced, Held, At
  <1> QED BY <1>2, <1>3

\* What a global operand of a later stage does to the register.
LEMMA Used ==
    ASSUME Types, UseGlobal
    PROVE  /\ Held
           /\ stage'.part = stage.part /\ stage'.unit = stage.unit
           /\ stage'.block = stage.block /\ stage'.i = stage.i + 1
           /\ stage'.vars \in Seq(Variable) /\ Begins(stage.vars, stage'.vars)
           /\ This.name \in Global
           /\ \E to \in 1..Len(stage'.vars) :
                /\ Written(to)
                /\ \/ to \in IndexOf(stage.vars, Plain(This.name)) /\ stage'.vars = stage.vars
                   \/ /\ Plain(This.name) \notin ToSet(stage.vars)
                      /\ stage'.vars[to] = [name |-> This.name, dollar |-> TRUE]
  <1>1. This.name \in Global /\ At("run")
    BY Places, GlobalOperands DEF UseGlobal, Compiles, AtOperand, InBlock, InUnit, InPart
  <1>2. CASE \E j \in IndexOf(stage.vars, Plain(This.name)) :
                stage' = [Advanced EXCEPT !.uses = Counted(j)] /\ Written(j)
    <2>1. PICK j \in IndexOf(stage.vars, Plain(This.name)) :
                stage' = [Advanced EXCEPT !.uses = Counted(j)] /\ Written(j)
      BY <1>2
    <2>2. /\ Held /\ stage'.part = stage.part /\ stage'.unit = stage.unit
          /\ stage'.block = stage.block /\ stage'.i = stage.i + 1 /\ stage'.vars = stage.vars
      BY <1>1, <2>1 DEF Types, Fields, Advanced, Held, At
    <2>3. j \in 1..Len(stage.vars) /\ stage.vars \in Seq(Variable)
      BY <2>1, IndexIsUnique DEF Types
    <2>4. Begins(stage.vars, stage'.vars)
      BY <2>2, <2>3 DEF Begins
    <2> HIDE DEF Counted, Written, IndexOf
    <2> QED BY <1>1, <2>1, <2>2, <2>3, <2>4
  <1>3. CASE /\ Plain(This.name) \notin ToSet(stage.vars)
             /\ stage' = [Advanced EXCEPT !.uses = Append(@, 0),
                            !.vars = Append(@, [name |-> This.name, dollar |-> TRUE])]
             /\ Written(Len(stage.vars) + 1)
    <2> DEFINE e == [name |-> This.name, dollar |-> TRUE]
    <2>1. /\ Held /\ stage'.part = stage.part /\ stage'.unit = stage.unit
          /\ stage'.block = stage.block /\ stage'.i = stage.i + 1
          /\ stage'.vars = Append(stage.vars, e)
      BY <1>1, <1>3 DEF Types, Fields, Advanced, Held, At
    <2>2. e \in Variable
      BY <1>1 DEF Variable
    <2> HIDE DEF e
    <2>3. /\ Append(stage.vars, e) \in Seq(Variable) /\ Begins(stage.vars, Append(stage.vars, e))
          /\ Len(Append(stage.vars, e)) = Len(stage.vars) + 1
          /\ Append(stage.vars, e)[Len(stage.vars) + 1] = e
      BY <2>2, AppendBegins DEF Types
    <2>4. Len(stage.vars) + 1 \in 1..Len(stage'.vars) /\ stage'.vars[Len(stage.vars) + 1] = e
      BY <2>1, <2>3 DEF Types
    <2> QED BY <1>1, <1>3, <2>1, <2>3, <2>4 DEF e
  <1> QED BY <1>2, <1>3 DEF UseGlobal

\* The steps that leave the registers of variables alone.
LEMMA Moved ==
    ASSUME Types, NextPart \/ NextUnit \/ NextBlock \/ UseLocal \/ UseText \/ UseId
    PROVE  /\ Held /\ stage'.vars = stage.vars
           /\ stage'.part \in Nat \ {0} /\ stage'.unit \in Nat \ {0}
           /\ stage'.block \in Nat \ {0} /\ stage'.i \in Nat \ {0}
           /\ UNCHANGED <<module, seed, disk, before>>
  <1>1. At("run")
    BY DEF NextPart, NextUnit, NextBlock, UseLocal, UseText, UseId, Compiles, AtOperand, InBlock,
           InUnit, InPart
  <1>2. CASE NextPart \/ NextUnit \/ NextBlock
    <2>1. CASE NextPart
      BY <1>1, <2>1 DEF NextPart, UnitLeft, Types, Fields, Held, At
    <2>2. CASE NextUnit
      BY <1>1, <2>2 DEF NextUnit, UnitLeft, Types, Fields, Held, At
    <2>3. CASE NextBlock
      BY <1>1, <2>3 DEF NextBlock, Types, Fields, Held, At
    <2> QED BY <1>2, <2>1, <2>2, <2>3
  <1>3. /\ DOMAIN Advanced = Fields /\ Advanced.pc = "run" /\ Advanced.n = stage.n
        /\ Advanced.vars = stage.vars
        /\ Advanced.part \in Nat \ {0} /\ Advanced.unit \in Nat \ {0}
        /\ Advanced.block \in Nat \ {0} /\ Advanced.i \in Nat \ {0}
    BY <1>1 DEF Types, Fields, Advanced, At
  <1>4. CASE UseLocal
    <2>1. PICK locals : stage' = [Advanced EXCEPT !.locals = locals]
      BY <1>4 DEF UseLocal
    <2>2. UNCHANGED <<module, seed, disk, before>>
      BY <1>4 DEF UseLocal
    <2> HIDE DEF Advanced
    <2> QED BY <1>1, <1>3, <2>1, <2>2 DEF Held, Fields
  <1>5. CASE UseText
    <2>1. \/ stage' = Advanced
          \/ \E key : stage' = [Advanced EXCEPT
                          !.texts = Append(@, [key |-> key, text |-> Stored(This.name)])]
      BY <1>5 DEF UseText
    <2>2. UNCHANGED <<module, seed, disk, before>>
      BY <1>5 DEF UseText
    <2> HIDE DEF Advanced
    <2> QED BY <1>1, <1>3, <2>1, <2>2 DEF Held, Fields
  <1>6. CASE UseId
    <2>1. stage' = Advanced /\ UNCHANGED <<module, seed, disk, before>>
      BY <1>6 DEF UseId
    <2> QED BY <1>1, <1>3, <2>1 DEF Held
  <1> QED BY <1>2, <1>4, <1>5, <1>6

\* The types hold initially.
LEMMA TypesInit == Init => Types
  BY ModuleAssumption, PartsAreParts DEF Init, Types, Fields, Ready, NoFiles, At

\* Every step keeps the types.
LEMMA TypesStep == Types /\ [Next]_vars => Types'
  <1> SUFFICES ASSUME Types, [Next]_vars PROVE Types'
    OBVIOUS
  <1>1. CASE Initialize
    BY <1>1, PartsAreParts DEF Types, Fields, Initialize, Ready, At
  <1>2. CASE Load
    BY <1>2, PartsAreParts DEF Types, Fields, Load, At
  <1>3. CASE Save
    BY <1>3, PartsAreParts DEF Types, Fields, Save, Saved, Ready, At
  <1>4. CASE NextPart \/ NextUnit \/ NextBlock \/ UseLocal \/ UseText \/ UseId
    BY <1>4, Moved DEF Types, Held, At
  <1>5. CASE Scan
    BY <1>5, Scanned DEF Types, Held, At, Scan
  <1>6. CASE UseGlobal
    <2>1. UNCHANGED <<module, seed, disk, before>>
      BY <1>6 DEF UseGlobal
    <2> QED BY <1>6, <2>1, Used, SMTT(30) DEF Types, Held, At
  <1>7. CASE Raise
    <2>1. At("run") /\ UNCHANGED <<module, seed, disk, before>>
      BY <1>7 DEF Raise, AtOperand, InBlock, InUnit, InPart
    <2>2. CASE stage' = UnitLeft
      BY <2>1, <2>2 DEF Types, Fields, UnitLeft, At
    <2>3. CASE stage' = Ready(stage.n + 1)
      BY <2>1, <2>3, PartsAreParts DEF Types, Fields, Ready, At
    <2> QED BY <1>7, <2>2, <2>3 DEF Raise
  <1>8. CASE Warn
    BY <1>8 DEF Types, Fields, Warn, At
  <1>9. CASE Rebuild
    <2>1. DOMAIN stage' = Fields /\ stage'.pc = "init" /\ stage'.n = 0 /\ stage'.part = 1
            /\ stage'.unit = 1 /\ stage'.block = 1 /\ stage'.i = 1 /\ stage'.vars = <<>>
      BY <1>9 DEF Rebuild, Ready, Fields
    <2>2. module' \in [Part -> Seq(Unit)] /\ seed' \in Seq(Variable)
      BY <1>9, ModuleAssumption DEF Rebuild, Types
    <2>3. disk' = disk /\ before' # <<>> /\ before'[1].vars = disk.vars
      BY <1>9 DEF Rebuild
    <2> QED BY <2>1, <2>2, <2>3, PartsAreParts DEF Types, At
  <1>10. CASE UNCHANGED vars
    BY <1>10 DEF Types, vars, At
  <1> QED BY <1>1, <1>2, <1>3, <1>4, <1>5, <1>6, <1>7, <1>8, <1>9, <1>10 DEF Next

\* The type invariant.
THEOREM TypeCorrect == Spec => []Types
  BY TypesInit, TypesStep, PTL DEF Spec

-----------------------------------------------------------------------------
(* The inductive invariant: while nothing has failed, the register only grows *)
(* at its end, from the seed to the file and from the file to the running     *)
(* stage; after the scan it has every assigned global; and every mention in   *)
(* the code written so far is sound for the register as it stands.            *)

Current == IF At("run") THEN stage.vars ELSE disk.vars

\* Mentions are of entries with the right name; of the entry a look-up finds,
\* if the name is in assigned or the entry has no $ sign.
Sound(written, entries, assigned) ==
  \A m \in written : m.kind = "global" =>
    /\ m.name \in Global /\ m.to \in 1..Len(entries) /\ entries[m.to].name = m.name
    /\ m.name \in assigned \/ entries[m.to] = Plain(m.name) => m.to \in IndexOf(entries, Plain(m.name))

\* The scan is past a place.
Passed(at, p, u, b, i) ==
  \/ p < at.part
  \/ p = at.part /\ u < at.unit
  \/ p = at.part /\ u = at.unit /\ b < at.block
  \/ p = at.part /\ u = at.unit /\ b = at.block /\ i < at.i

Code(p) == module[ScanOrder[p]]

FoundBy(at) ==
  \A p \in 1..Len(ScanOrder) : \A u \in 1..Len(Code(p)) : \A b \in 1..Len(Code(p)[u]) :
    \A i \in 1..Len(Code(p)[u][b]) :
      Passed(at, p, u, b, i) /\ Declares(Code(p)[u][b][i])
        => Plain(Code(p)[u][b][i].name) \in ToSet(at.vars)

ScanFinds == FoundBy(stage)

Covered == \A g \in Assigned : Plain(g) \in ToSet(disk.vars)

Kept ==
  before # <<>> => \A old \in before[1].code :
    (old.kind = "global" /\ before[1].vars[old.to] = Plain(old.name))
      => old.to \in IndexOf(before[1].vars, Plain(old.name))

Register ==
  /\ stage.n = 0 => code = {}
  /\ ~At("init") => Begins(seed, disk.vars)
  /\ At("run") => Begins(disk.vars, stage.vars)
  /\ At("run") /\ stage.n = 0 => ScanFinds
  /\ stage.n > 0 => Covered
  /\ Sound(code, Current, Assigned)
  /\ Kept

RegInv == Types /\ (~failed => Register) /\ Len(before) \in 0..1

\* A mention stays sound when the register grows.
LEMMA SoundStays ==
    ASSUME NEW written, NEW as, NEW vs \in Seq(Variable), NEW ws \in Seq(Variable),
           Begins(vs, ws), Sound(written, vs, as)
    PROVE  Sound(written, ws, as)
  <1> SUFFICES ASSUME NEW m \in written, m.kind = "global"
               PROVE  /\ m.name \in Global /\ m.to \in 1..Len(ws) /\ ws[m.to].name = m.name
                      /\ m.name \in as \/ ws[m.to] = Plain(m.name)
                           => m.to \in IndexOf(ws, Plain(m.name))
    BY DEF Sound
  <1>1. /\ m.name \in Global /\ m.to \in 1..Len(vs) /\ vs[m.to].name = m.name
        /\ m.name \in as \/ vs[m.to] = Plain(m.name) => m.to \in IndexOf(vs, Plain(m.name))
    BY DEF Sound
  <1>2. m.to \in 1..Len(ws) /\ ws[m.to] = vs[m.to]
    BY <1>1 DEF Begins
  <1>3. m.to \in IndexOf(vs, Plain(m.name)) => m.to \in IndexOf(ws, Plain(m.name))
    BY IndexIsStable
  <1> QED BY <1>1, <1>2, <1>3

\* What the scan has found depends on the module and its place alone.
LEMMA ScanFindsNext ==
    ASSUME UNCHANGED module
    PROVE  ScanFinds' = FoundBy(stage')
  BY DEF ScanFinds, FoundBy, Code

\* The assigned globals depend on the module and the seed alone.
LEMMA AssignedStays ==
    ASSUME UNCHANGED <<module, seed>>
    PROVE  Assigned' = Assigned
  BY DEF Assigned

\* When the scan has passed everything, it has every assigned global.
LEMMA ScanIsComplete ==
    ASSUME Types, Begins(seed, stage.vars), ScanFinds, stage.part > Len(ScanOrder),
           NEW g \in Assigned
    PROVE  Plain(g) \in ToSet(stage.vars)
  <1>1. CASE Plain(g) \in ToSet(seed)
    BY <1>1, EntriesStay DEF Types
  <1>2. CASE Plain(g) \notin ToSet(seed)
    <2> DEFINE In(name) == \E unit \in ToSet(module[name]) : \E block \in ToSet(unit) :
                             \E o \in ToSet(block) : o.kind = "global" /\ o.role # "used" /\ o.name = g
    <2>1. PICK name \in ToSet(ScanOrder) : In(name)
      BY <1>2 DEF Assigned
    <2>2. PICK p \in 1..Len(ScanOrder) : name = ScanOrder[p]
      BY CompilerAssumption DEF ToSet
    <2>3. Code(p) \in Seq(Unit)
      BY CompilerAssumption DEF Types, Code
    <2>4. PICK u \in 1..Len(Code(p)) : \E block \in ToSet(Code(p)[u]) : \E o \in ToSet(block) :
                                          o.kind = "global" /\ o.role # "used" /\ o.name = g
      BY <2>1, <2>2, <2>3 DEF ToSet, Code
    <2>5. Code(p)[u] \in Seq(Seq(Operand))
      BY <2>3 DEF Unit
    <2>6. PICK b \in 1..Len(Code(p)[u]) : \E o \in ToSet(Code(p)[u][b]) :
                                          o.kind = "global" /\ o.role # "used" /\ o.name = g
      <3> DEFINE unit == Code(p)[u]
      <3>1. PICK block \in ToSet(unit) : \E o \in ToSet(block) :
                                          o.kind = "global" /\ o.role # "used" /\ o.name = g
        BY <2>4
      <3>2. unit \in Seq(Seq(Operand))
        BY <2>5
      <3> HIDE DEF unit
      <3>3. PICK b \in 1..Len(unit) : block = unit[b]
        BY <3>2 DEF ToSet
      <3> QED BY <3>1, <3>3 DEF unit
    <2>7. Code(p)[u][b] \in Seq(Operand)
      BY <2>5
    <2> DEFINE block == Code(p)[u][b]
    <2>8. PICK i \in 1..Len(block) : block[i].kind = "global" /\ block[i].role # "used"
                                       /\ block[i].name = g
      BY <2>6, <2>7 DEF ToSet
    <2>9. block[i] \in Operand
      BY <2>7
    <2>10. Declares(block[i])
      BY <2>8, <2>9, GlobalOperands DEF Declares, Role
    <2>11. Passed(stage, p, u, b, i)
      BY CompilerAssumption DEF Passed, Types
    <2> QED BY <2>8, <2>10, <2>11 DEF ScanFinds, FoundBy
  <1> QED BY <1>1, <1>2

\* Steps that leave the registers alone: what they must keep, for the rest to
\* follow.
LEMMA RegisterMoved ==
    ASSUME Types, Register, Held, stage'.vars = stage.vars, UNCHANGED <<module, seed, disk, before>>,
           stage.n = 0 => code' = {} /\ ScanFinds',
           \A m \in code' : m \in code \/ m.kind # "global"
    PROVE  Register'
  <1>1. At("run") /\ At("run")' /\ stage'.n = stage.n /\ ~At("init")'
    BY DEF Held, At
  <1>2. Assigned' = Assigned
    BY AssignedStays
  <1>3. Current' = Current
    BY <1>1 DEF Current
  <1>4. Sound(code', Current', Assigned')
    BY <1>2, <1>3 DEF Register, Sound
  <1>5. Kept'
    BY DEF Kept, Register
  <1>6. ~At("init")
    BY <1>1 DEF At
  <1>7. stage.n > 0 => Covered'
    BY <1>2 DEF Covered, Register
  <1> QED BY <1>1, <1>4, <1>5, <1>6, <1>7 DEF Register

\* What has been passed at another place in the code is found there, too.
LEMMA NothingNew ==
    ASSUME NEW was, NEW at, FoundBy(was), at.vars = was.vars,
           \A p \in 1..Len(ScanOrder) : \A u \in 1..Len(Code(p)) : \A b \in 1..Len(Code(p)[u]) :
             \A i \in 1..Len(Code(p)[u][b]) : Passed(at, p, u, b, i) => Passed(was, p, u, b, i)
    PROVE  FoundBy(at)
  BY DEF FoundBy

\* Leaving a part, a unit or a block at its end passes nothing new.
LEMMA NothingSkipped ==
    ASSUME Types, ScanFinds, stage.n = 0, UNCHANGED module, stage'.vars = stage.vars,
           NextPart \/ NextUnit \/ NextBlock
    PROVE  ScanFinds'
  <1>1. ASSUME NEW p \in 1..Len(ScanOrder), NEW u \in 1..Len(Code(p)),
               NEW b \in 1..Len(Code(p)[u]), NEW i \in 1..Len(Code(p)[u][b]),
               Passed(stage', p, u, b, i)
        PROVE  Passed(stage, p, u, b, i)
    <2>1. Code(p) \in Seq(Unit)
      BY CompilerAssumption DEF Types, Code
    <2>2. Code(p)[u] \in Seq(Seq(Operand))
      BY <2>1 DEF Unit
    <2>3. Code(p)[u][b] \in Seq(Operand)
      BY <2>2
    <2>4. p \in Int /\ u \in Int /\ b \in Int /\ i \in Int
      BY <2>1, <2>2, <2>3, CompilerAssumption
    <2>5. p = stage.part => Here = Code(p)
      BY DEF Here, Code, Parts
    <2>6. CASE NextPart
      <3>1. /\ stage'.part = stage.part + 1 /\ stage'.unit = 1
            /\ stage'.block = 1 /\ stage'.i = 1
        BY <2>6 DEF NextPart, UnitLeft, Types, Fields
      <3>2. p = stage.part => u < stage.unit
        BY <2>5, <2>6, <2>1 DEF NextPart, InUnit, Types
      <3> QED BY <1>1, <2>4, <3>1, <3>2 DEF Passed, Types
    <2>7. CASE NextUnit
      <3>1. /\ stage'.part = stage.part /\ stage'.unit = stage.unit + 1
            /\ stage'.block = 1 /\ stage'.i = 1
        BY <2>7 DEF NextUnit, UnitLeft, Types, Fields
      <3>2. p = stage.part /\ u = stage.unit => b < stage.block
        BY <2>5, <2>7, <2>2 DEF NextUnit, InBlock, Types
      <3> QED BY <1>1, <2>4, <3>1, <3>2 DEF Passed, Types
    <2>8. CASE NextBlock
      <3>1. /\ stage'.part = stage.part /\ stage'.unit = stage.unit
            /\ stage'.block = stage.block + 1 /\ stage'.i = 1
        BY <2>8 DEF NextBlock, Types, Fields
      <3>2. p = stage.part /\ u = stage.unit /\ b = stage.block => i < stage.i
        BY <2>5, <2>8, <2>3 DEF NextBlock, AtOperand, Block, Types
      <3> QED BY <1>1, <2>4, <3>1, <3>2 DEF Passed, Types
    <2> QED BY <2>6, <2>7, <2>8
  <1>2. FoundBy(stage')
    BY <1>1, NothingNew DEF ScanFinds
  <1> QED BY <1>2, ScanFindsNext

\* The steps that leave the registers of variables alone keep the invariant.
LEMMA RegisterOther ==
    ASSUME Types, Register,
           NextPart \/ NextUnit \/ NextBlock \/ UseLocal \/ UseText \/ UseId
    PROVE  Register'
  <1>1. Held /\ stage'.vars = stage.vars /\ UNCHANGED <<module, seed, disk, before>>
    BY Moved
  <1>2. CASE NextPart \/ NextUnit \/ NextBlock
    <2>1. code' = code
      BY <1>2 DEF NextPart, NextUnit, NextBlock
    <2>2. stage.n = 0 => ScanFinds'
      BY <1>1, <1>2, NothingSkipped DEF Register, Held
    <2>3. stage.n = 0 => code' = {}
      BY <2>1 DEF Register
    <2> QED BY <1>1, <2>1, <2>2, <2>3, RegisterMoved
  <1>3. CASE UseLocal \/ UseText \/ UseId
    <2>1. stage.n # 0 /\ This.kind # "global" /\ \E to : Written(to)
      <3>1. CASE UseLocal
        BY <3>1 DEF UseLocal, Compiles
      <3>2. CASE UseText
        BY <3>2 DEF UseText, Compiles
      <3>3. CASE UseId
        BY <3>3 DEF UseId, Compiles
      <3> QED BY <1>3, <3>1, <3>2, <3>3
    <2>2. \A m \in code' : m \in code \/ m.kind # "global"
      BY <2>1 DEF Written
    <2> QED BY <1>1, <2>1, <2>2, RegisterMoved
  <1> QED BY <1>2, <1>3

\* The scan of an operand.
LEMMA RegisterScan ==
    ASSUME Types, Register, Scan
    PROVE  Register'
  <1>1. /\ Held
        /\ stage'.part = stage.part /\ stage'.unit = stage.unit
        /\ stage'.block = stage.block /\ stage'.i = stage.i + 1
        /\ stage'.vars \in Seq(Variable) /\ Begins(stage.vars, stage'.vars)
        /\ Declares(This) => Plain(This.name) \in ToSet(stage'.vars)
    BY Scanned
  <1>2. stage.n = 0 /\ code' = code /\ UNCHANGED <<module, seed, disk, before>> /\ AtOperand
    BY DEF Scan
  <1>3. At("run") /\ At("run")' /\ ~At("init") /\ ~At("init")' /\ stage'.n = 0
    BY <1>1, <1>2 DEF Held, At
  <1>4. Begins(disk'.vars, stage'.vars)
    BY <1>1, <1>2, <1>3, BeginsIsTransitive DEF Types, Register
  <1>5. Sound(code', Current', Assigned') /\ code' = {}
    BY <1>2 DEF Register, Sound
  <1>6. ScanFinds'
    <2>0. ScanFinds' = FoundBy(stage')
      BY <1>2, ScanFindsNext
    <2> SUFFICES FoundBy(stage')
      BY <2>0
    <2>1. SUFFICES ASSUME NEW p \in 1..Len(ScanOrder), NEW u \in 1..Len(Code(p)),
                          NEW b \in 1..Len(Code(p)[u]), NEW i \in 1..Len(Code(p)[u][b]),
                          Passed(stage', p, u, b, i), Declares(Code(p)[u][b][i])
                   PROVE  Plain(Code(p)[u][b][i].name) \in ToSet(stage'.vars)
      BY DEF FoundBy
    <2>2. CASE Passed(stage, p, u, b, i)
      <3>1. Plain(Code(p)[u][b][i].name) \in ToSet(stage.vars)
        BY <1>2, <1>3, <2>1, <2>2 DEF Register, ScanFinds, FoundBy
      <3> QED BY <1>1, <3>1, EntriesStay DEF Types
    <2>3. CASE ~Passed(stage, p, u, b, i)
      <3>1. Code(p) \in Seq(Unit)
        BY CompilerAssumption DEF Types, Code
      <3>2. Code(p)[u] \in Seq(Seq(Operand))
        BY <3>1 DEF Unit
      <3>3. Code(p)[u][b] \in Seq(Operand)
        BY <3>2
      <3>4. p = stage.part /\ u = stage.unit /\ b = stage.block /\ i = stage.i
        BY <1>1, <2>1, <2>3, <3>1, <3>2, <3>3, CompilerAssumption DEF Passed, Types
      <3>5. This = Code(p)[u][b][i]
        BY <1>2, <3>4 DEF This, Block, Here, Code, Parts
      <3> QED BY <1>1, <2>1, <3>5
    <2> QED BY <2>2, <2>3
  <1>7. Kept'
    BY <1>2 DEF Register, Kept
  <1> QED BY <1>2, <1>3, <1>4, <1>5, <1>6, <1>7 DEF Register

\* A global operand: the mention written is sound, as the scan has found every
\* global that is assigned.
LEMMA RegisterUse ==
    ASSUME Types, Register, UseGlobal
    PROVE  Register'
  <1>1. /\ Held /\ stage'.vars \in Seq(Variable) /\ Begins(stage.vars, stage'.vars)
        /\ This.name \in Global
    BY Used
  <1>2. stage.n > 0 /\ UNCHANGED <<module, seed, disk, before>>
    BY DEF UseGlobal, Compiles, Types
  <1>3. At("run") /\ At("run")' /\ ~At("init") /\ ~At("init")' /\ stage'.n = stage.n
    BY <1>1 DEF Held, At
  <1>4. Begins(disk'.vars, stage'.vars)
    BY <1>1, <1>2, <1>3, BeginsIsTransitive DEF Types, Register
  <1>5. Assigned' = Assigned
    BY <1>2, AssignedStays
  <1>6. Sound(code', stage'.vars, Assigned)
    <2>1. Sound(code, stage'.vars, Assigned)
      BY <1>1, <1>3, SoundStays DEF Types, Register, Current
    <2>2. PICK to \in 1..Len(stage'.vars) :
                /\ Written(to)
                /\ \/ to \in IndexOf(stage.vars, Plain(This.name)) /\ stage'.vars = stage.vars
                   \/ /\ Plain(This.name) \notin ToSet(stage.vars)
                      /\ stage'.vars[to] = [name |-> This.name, dollar |-> TRUE]
      BY Used
    <2>3. /\ stage'.vars[to].name = This.name
          /\ This.name \in Assigned \/ stage'.vars[to] = Plain(This.name)
               => to \in IndexOf(stage'.vars, Plain(This.name))
      <3>1. CASE to \in IndexOf(stage.vars, Plain(This.name)) /\ stage'.vars = stage.vars
        <4>1. stage.vars[to] = Plain(This.name)
          BY <3>1, IndexIsUnique DEF Types
        <4> QED BY <3>1, <4>1 DEF Plain
      <3>2. CASE /\ Plain(This.name) \notin ToSet(stage.vars)
                 /\ stage'.vars[to] = [name |-> This.name, dollar |-> TRUE]
        <4>1. stage'.vars[to] # Plain(This.name)
          BY <3>2 DEF Plain
        <4>2. This.name \in Assigned => Plain(This.name) \in ToSet(stage.vars)
          <5>1. This.name \in Assigned => Plain(This.name) \in ToSet(disk.vars)
            BY <1>2 DEF Register, Covered
          <5> QED BY <1>3, <5>1, EntriesStay DEF Types, Register
        <4> QED BY <3>2, <4>1, <4>2
      <3> QED BY <2>2, <3>1, <3>2
    <2> DEFINE m == [place |-> <<stage.n, stage.part, stage.unit, stage.block, stage.i>>, to |-> to,
                     role |-> This.role, kind |-> This.kind, name |-> This.name]
    <2>4. code' = code \cup {m}
      BY <2>2 DEF Written
    <2>5. m.to = to /\ m.name = This.name
      OBVIOUS
    <2> HIDE DEF m
    <2> QED BY <1>1, <2>1, <2>2, <2>3, <2>4, <2>5 DEF Sound
  <1>7. Covered'
    BY <1>2, <1>5 DEF Register, Covered
  <1>8. Kept'
    BY <1>2 DEF Register, Kept
  <1>9. Sound(code', Current', Assigned')
    BY <1>3, <1>5, <1>6 DEF Current
  <1>10. Begins(seed', disk'.vars)
    BY <1>2, <1>3 DEF Register
  <1>11. stage'.n > 0 /\ stage'.n # 0
    BY <1>2, <1>3
  <1> QED BY <1>3, <1>4, <1>7, <1>8, <1>9, <1>10, <1>11 DEF Register

\* The first process brings the seed.
LEMMA RegisterInitialize ==
    ASSUME Types, Register, Initialize
    PROVE  Register'
  <1>1. /\ stage'.pc = "load" /\ stage'.n = 0 /\ disk'.vars = seed /\ code' = {}
        /\ UNCHANGED <<seed, before>>
    BY DEF Initialize, Ready, Register, Types
  <1>2. Begins(seed', disk'.vars)
    BY <1>1 DEF Types, Begins
  <1>3. Sound(code', Current', Assigned')
    BY <1>1 DEF Sound
  <1>4. Kept'
    BY <1>1 DEF Register, Kept
  <1> QED BY <1>1, <1>2, <1>3, <1>4 DEF Register, At

\* A stage starts with what is on disk, and has passed nothing yet.
LEMMA RegisterLoad ==
    ASSUME Types, Register, Load
    PROVE  Register'
  <1>1. /\ stage.pc = "load" /\ stage'.pc = "run" /\ stage'.n = stage.n /\ stage'.vars = disk.vars
        /\ stage'.part = stage.part /\ stage'.unit = stage.unit /\ stage'.block = stage.block
        /\ stage'.i = stage.i
        /\ UNCHANGED <<module, seed, disk, code, before>>
    BY DEF Load, At, Types, Fields
  <1>2. Begins(disk'.vars, stage'.vars) /\ Begins(seed', disk'.vars)
    BY <1>1 DEF Types, Begins, Register, At
  <1>3. Assigned' = Assigned
    BY <1>1, AssignedStays
  <1>4. Sound(code', Current', Assigned')
    BY <1>1, <1>3 DEF Register, Current, At
  <1>5. Kept'
    BY <1>1 DEF Register, Kept
  <1>6. stage'.n > 0 => Covered'
    BY <1>1, <1>3 DEF Register, Covered
  <1>7. stage'.n = 0 => ScanFinds'
    <2>1. SUFFICES ASSUME stage.n = 0 PROVE FoundBy(stage')
      BY <1>1, ScanFindsNext
    <2>2. stage.part = 1 /\ stage.unit = 1 /\ stage.block = 1 /\ stage.i = 1
      BY <1>1, <2>1 DEF Types, At
    <2>3. \A p \in 1..Len(ScanOrder) : \A u \in 1..Len(Code(p)) : \A b \in 1..Len(Code(p)[u]) :
            \A i \in 1..Len(Code(p)[u][b]) : ~Passed(stage', p, u, b, i)
      BY <1>1, <2>2 DEF Passed
    <2> QED BY <2>3 DEF FoundBy
  <1> QED BY <1>1, <1>2, <1>4, <1>5, <1>6, <1>7 DEF Register, At

\* What a stage saves begins with what it loaded, and the scan saves all of
\* the assigned globals.
LEMMA RegisterSave ==
    ASSUME Types, Register, Save
    PROVE  Register'
  <1>1. /\ stage.pc = "run" /\ stage'.pc = "load" /\ stage'.n = stage.n + 1
        /\ disk'.vars = stage.vars
        /\ UNCHANGED <<module, seed, code, before>>
    BY DEF Save, Saved, Ready, At
  <1>2. Begins(seed, stage.vars)
    BY <1>1, BeginsIsTransitive DEF Types, Register, At
  <1>3. Assigned' = Assigned
    BY <1>1, AssignedStays
  <1>4. Sound(code', Current', Assigned')
    BY <1>1, <1>3 DEF Register, Current, At
  <1>5. Kept'
    BY <1>1 DEF Register, Kept
  <1>6. \A g \in Assigned : Plain(g) \in ToSet(stage.vars)
    <2>1. CASE stage.n = 0
      <3>1. ScanFinds
        BY <1>1, <2>1 DEF Register, At
      <3>2. stage.part > Len(ScanOrder)
        BY <2>1, CompilerAssumption DEF Save, InPart, Parts, Types
      <3> QED BY <1>2, <3>1, <3>2, ScanIsComplete
    <2>2. CASE stage.n # 0
      <3>1. \A g \in Assigned : Plain(g) \in ToSet(disk.vars)
        BY <2>2 DEF Types, Register, Covered
      <3>2. Begins(disk.vars, stage.vars)
        BY <1>1 DEF Register, At
      <3> QED BY <3>1, <3>2, EntriesStay DEF Types
    <2> QED BY <2>1, <2>2
  <1>7. Covered'
    BY <1>1, <1>3, <1>6 DEF Covered
  <1>8. stage'.n # 0 /\ Begins(seed', disk'.vars)
    BY <1>1, <1>2 DEF Types
  <1> QED BY <1>1, <1>4, <1>5, <1>7, <1>8 DEF Register, At

\* The last process changes none of the registers.
LEMMA RegisterWarn ==
    ASSUME Types, Register, Warn
    PROVE  Register'
  <1>1. /\ stage.pc = "load" /\ stage'.pc = "done" /\ stage'.n = stage.n
        /\ UNCHANGED <<module, seed, disk, code, before>>
    BY DEF Warn, At, Types, Fields
  <1>2. Assigned' = Assigned
    BY <1>1, AssignedStays
  <1>3. Sound(code', Current', Assigned')
    BY <1>1, <1>2 DEF Register, Current, At
  <1>4. Kept'
    BY <1>1 DEF Register, Kept
  <1>5. stage'.n > 0 => Covered'
    BY <1>1, <1>2 DEF Register, Covered
  <1> QED BY <1>1, <1>3, <1>4, <1>5 DEF Register, At

\* The mentions of a build become those of the build before.
LEMMA RegisterRebuild ==
    ASSUME Types, Register, Rebuild
    PROVE  Register'
  <1>1. /\ stage.pc = "done" /\ stage'.pc = "init" /\ stage'.n = 0 /\ code' = {}
        /\ before' = <<[vars |-> disk.vars, code |-> code]>>
    BY DEF Rebuild, Ready, At
  <1>2. Sound(code, disk.vars, Assigned)
    BY <1>1 DEF Register, Current, At
  <1>3. before'[1].vars = disk.vars /\ before'[1].code = code
    BY <1>1
  <1>4. Kept'
    BY <1>2, <1>3 DEF Kept, Sound
  <1>5. Sound(code', Current', Assigned')
    BY <1>1 DEF Sound
  <1> QED BY <1>1, <1>4, <1>5 DEF Register, At

\* The invariant holds at the start, with no code written.
LEMMA RegInit == Init => RegInv
  <1> SUFFICES ASSUME Init PROVE RegInv
    OBVIOUS
  <1>1. Types
    BY TypesInit
  <1>2. stage.pc = "init" /\ stage.n = 0 /\ code = {} /\ before = <<>>
    BY DEF Init, Ready
  <1>3. Register
    BY <1>2 DEF Register, At, Sound, Kept
  <1> QED BY <1>1, <1>2, <1>3 DEF RegInv

\* Every step keeps the invariant, or makes the build fail.
LEMMA RegStep == RegInv /\ [Next]_vars => RegInv'
  <1> SUFFICES ASSUME RegInv, [Next]_vars PROVE RegInv'
    OBVIOUS
  <1>1. Types /\ Types'
    BY TypesStep DEF RegInv
  <1>2. Len(before') \in 0..1
    <2>1. CASE Rebuild
      BY <2>1 DEF Rebuild
    <2>2. CASE ~Rebuild
      <3>1. UNCHANGED before
        BY <2>2 DEF Next, vars, Initialize, Load, Save, NextPart, NextUnit, NextBlock, Scan,
                    UseGlobal, UseLocal, UseText, UseId, Raise, Warn
      <3> QED BY <3>1 DEF RegInv
    <2> QED BY <2>1, <2>2
  <1>3. ASSUME ~failed' PROVE Register'
    <2>1. ~failed /\ ~Raise
      <3>1. ~Raise
        BY <1>3 DEF Raise
      <3>2. CASE UseLocal \/ UseId
        <4>1. CASE UseLocal
          <5>1. failed' = failed \/ failed' = TRUE
            BY <4>1 DEF UseLocal
          <5>2. CASE failed' = failed
            BY <1>3, <3>1, <5>2, Zenon
          <5>3. CASE failed' = TRUE
            BY <1>3, <5>3, Zenon
          <5> QED BY <5>1, <5>2, <5>3, Zenon
        <4>2. CASE UseId
          <5>1. failed' = (failed \/ This.name \notin Known)
            BY <4>2 DEF UseId
          <5> QED BY <1>3, <3>1, <5>1, Zenon
        <4> QED BY <3>1, <3>2, <4>1, <4>2
      <3>3. CASE ~(UseLocal \/ UseId)
        <4>1. failed' = failed
          BY <3>1, <3>3 DEF Next, vars, Initialize, Load, Save, NextPart, NextUnit, NextBlock,
                            Scan, UseGlobal, UseText, Warn, Rebuild
        <4> QED BY <1>3, <3>1, <4>1
      <3> QED BY <3>2, <3>3
    <2>2. Register
      BY <2>1 DEF RegInv
    <2>3. CASE Initialize
      BY <1>1, <2>2, <2>3, RegisterInitialize
    <2>4. CASE Load
      BY <1>1, <2>2, <2>4, RegisterLoad
    <2>5. CASE Save
      BY <1>1, <2>2, <2>5, RegisterSave
    <2>6. CASE NextPart \/ NextUnit \/ NextBlock \/ UseLocal \/ UseText \/ UseId
      BY <1>1, <2>2, <2>6, RegisterOther
    <2>7. CASE Scan
      BY <1>1, <2>2, <2>7, RegisterScan
    <2>8. CASE UseGlobal
      BY <1>1, <2>2, <2>8, RegisterUse
    <2>9. CASE Warn
      BY <1>1, <2>2, <2>9, RegisterWarn
    <2>10. CASE Rebuild
      BY <1>1, <2>2, <2>10, RegisterRebuild
    <2>11. CASE UNCHANGED vars
      <3>1. UNCHANGED <<module, seed, disk, stage, code, before>>
        BY <2>11 DEF vars
      <3>2. Assigned' = Assigned /\ Current' = Current
        BY <3>1, AssignedStays DEF Current, At
      <3>3. (Sound(code, Current, Assigned))' /\ Kept'
        BY <2>2, <3>1, <3>2 DEF Register, Kept, Sound
      <3>4. (At("run") /\ stage.n = 0 => ScanFinds)'
        BY <2>2, <3>1, ScanFindsNext DEF Register, At, ScanFinds
      <3>5. (stage.n > 0 => Covered)'
        BY <2>2, <3>1, <3>2 DEF Register, Covered
      <3> QED BY <2>2, <3>1, <3>3, <3>4, <3>5 DEF Register, At
    <2> QED BY <2>1, <2>3, <2>4, <2>5, <2>6, <2>7, <2>8, <2>9, <2>10, <2>11 DEF Next
  <1> QED BY <1>1, <1>2, <1>3 DEF RegInv

-----------------------------------------------------------------------------
\* Every mention of a global has, in an accepted build, the one index of its
\* name: the stages agree, whatever each of them appended.
THEOREM OneIndexForAll == Spec => []GlobalsHaveOneIndex
  <1>1. RegInv => GlobalsHaveOneIndex
    <2>1. SUFFICES ASSUME RegInv, Accepted, NEW m \in code, m.kind = "global"
                   PROVE  /\ disk.vars[m.to].name = m.name
                          /\ m.name \in Assigned => m.to \in IndexOf(disk.vars, Plain(m.name))
      BY DEF GlobalsHaveOneIndex, Mentions
    <2>2. Sound(code, disk.vars, Assigned)
      BY <2>1 DEF RegInv, Register, Accepted, Current, At
    <2> QED BY <2>1, <2>2 DEF Sound
  <1> QED BY <1>1, RegInit, RegStep, PTL DEF Spec

\* With the variables of the build before in the source directory, a rebuild of
\* any other module leaves them all where they were.
THEOREM SavegamesKeepIndices == Spec => []IndicesAreKept
  <1>1. RegInv => IndicesAreKept
    <2>1. SUFFICES ASSUME RegInv, Accepted, NEW b \in ToSet(before), IsPrefix(b.vars, seed)
                   PROVE  /\ IsPrefix(b.vars, disk.vars)
                          /\ \A m \in Mentions("global"), old \in b.code :
                               (old.kind = "global" /\ old.name = m.name
                                  /\ b.vars[old.to] = Plain(old.name)) => m.to = old.to
      BY DEF IndicesAreKept
    <2>2. Types /\ Register /\ stage.pc = "done"
      BY <2>1 DEF RegInv, Accepted, At
    <2>3. before # <<>> /\ b = before[1]
      BY <2>1 DEF RegInv, ToSet
    <2>4. b.vars \in Seq(Variable) /\ seed \in Seq(Variable) /\ disk.vars \in Seq(Variable)
      BY <2>2, <2>3 DEF Types
    <2>5. Begins(b.vars, disk.vars) /\ Begins(b.vars, seed)
      BY <2>1, <2>2, <2>4, BeginsIsPrefix, BeginsIsTransitive DEF Register, At
    <2>6. IsPrefix(b.vars, disk.vars)
      BY <2>4, <2>5, BeginsIsPrefix
    <2>7. ASSUME NEW m \in Mentions("global"), NEW old \in b.code, old.kind = "global",
                 old.name = m.name, b.vars[old.to] = Plain(old.name)
          PROVE  m.to = old.to
      <3>1. old.to \in IndexOf(b.vars, Plain(m.name))
        BY <2>2, <2>3, <2>7 DEF Register, Kept
      <3>2. old.to \in IndexOf(disk.vars, Plain(m.name))
        BY <2>4, <2>5, <3>1, IndexIsStable
      <3>3. old.to \in 1..Len(b.vars) /\ b.vars[old.to] = Plain(m.name)
        BY <2>4, <3>1, IndexIsUnique
      <3>4. m.name \in Global /\ (m.name \in Assigned => m.to \in IndexOf(disk.vars, Plain(m.name)))
        BY <2>2, <2>7 DEF Register, Sound, Current, Mentions, At
      <3>5. Plain(m.name) \in ToSet(seed)
        BY <2>4, <2>5, <3>3 DEF Begins, ToSet
      <3>6. m.name \in Assigned
        BY <3>4, <3>5 DEF Assigned
      <3> QED BY <2>4, <3>2, <3>4, <3>6, IndexIsUnique
    <2> QED BY <2>6, <2>7
  <1> QED BY <1>1, RegInit, RegStep, PTL DEF Spec
-----------------------------------------------------------------------------
(* The register of quick strings: as long as no text is empty, no stage drops *)
(* an entry when it loads the file, so each mention stays at its text.        *)

Entry == [key : Key, text : {Stored(t) : t \in Text}]

\* The texts as the stages have them; the scan leaves those in the file alone.
Texts == IF At("run") /\ stage.n # 0 THEN stage.texts ELSE disk.texts

NoneIsEmpty == \A m \in Mentions("text") : Stored(m.name) # Empty

\* No entry is empty, and every mention is of an entry with its text.
Lead(written, texts) ==
  /\ texts \in Seq(Entry) /\ \A j \in 1..Len(texts) : texts[j].text # Empty
  /\ \A m \in written : m.kind = "text" =>
       m.to \in 1..Len(texts) /\ texts[m.to].text = Stored(m.name)

TextsLead == ~failed /\ NoneIsEmpty /\ ~At("init") => Lead(code, Texts)

\* How many numbers of 1..n are up to j.
LEMMA CountUpTo ==
    ASSUME NEW n \in Nat, NEW j \in 1..n
    PROVE  Cardinality({i \in 1..n : i <= j}) = j
  <1>1. {i \in 1..n : i <= j} = 1..j
    OBVIOUS
  <1>2. Cardinality(1..j) = j
    BY FS_Interval
  <1> QED BY <1>1, <1>2

\* A file without empty texts is loaded as it is.
LEMMA LoadedAsItIs ==
    ASSUME NEW texts \in Seq(Entry), \A j \in 1..Len(texts) : texts[j].text # Empty
    PROVE  Loaded(texts) = texts
  <1> DEFINE whole == {j \in DOMAIN texts : texts[j].text # Empty}
             n     == Len(texts)
             Nth(k) == CHOOSE j \in whole : Cardinality({i \in whole : i <= j}) = k
  <1>1. whole = 1..n /\ n \in Nat
    OBVIOUS
  <1> HIDE DEF n
  <1>2. Cardinality(1..n) = n
    BY <1>1, FS_Interval
  <1>3. ASSUME NEW k \in 1..n PROVE Nth(k) = k
    <2>1. \A j \in 1..n : Cardinality({i \in 1..n : i <= j}) = j
      BY <1>1, CountUpTo
    <2>2. k \in 1..n /\ \A j \in 1..n : Cardinality({i \in 1..n : i <= j}) = k <=> j = k
      BY <2>1
    <2>3. (CHOOSE j \in 1..n : Cardinality({i \in 1..n : i <= j}) = k) = k
      BY <2>2
    <2> QED BY <1>1, <2>3
  <1>4. Loaded(texts) = [k \in 1..Cardinality(whole) |-> texts[Nth(k)]]
    BY DEF Loaded
  <1>6. [k \in 1..n |-> texts[k]] = texts
    BY DEF n
  <1> HIDE DEF whole, Nth
  <1>5. [k \in 1..n |-> texts[Nth(k)]] = [k \in 1..n |-> texts[k]]
    BY <1>3
  <1> QED BY <1>1, <1>2, <1>4, <1>5, <1>6

\* The mentions of a shorter code are without empty texts if those of a longer are.
LEMMA MentionsStay ==
    ASSUME code \subseteq code', NoneIsEmpty'
    PROVE  NoneIsEmpty
  BY DEF NoneIsEmpty, Mentions

\* A step that leaves the texts, and what is written of them, alone.
LEMMA TextsUnmoved ==
    ASSUME TextsLead, ~failed' => ~failed, ~At("init"), Texts' = Texts, code \subseteq code',
           \A m \in code' : m \in code \/ m.kind # "text"
    PROVE  TextsLead'
  <1> SUFFICES ASSUME ~failed', NoneIsEmpty' PROVE Lead(code', Texts')
    BY DEF TextsLead
  <1>1. Lead(code, Texts)
    BY MentionsStay DEF TextsLead
  <1> QED BY <1>1 DEF Lead

\* An operand that is a text.
LEMMA TextOperands ==
    ASSUME NEW o \in Operand, o.kind = "text"
    PROVE  o.name \in Text
  BY DEF Operand

\* What a text operand gets is the index of an entry with its text: the entry
\* found, or the one appended.
LEMMA TextUsed ==
    ASSUME Types, UseText
    PROVE  /\ At("run") /\ stage.n # 0 /\ At("run")' /\ stage'.n = stage.n
           /\ This.name \in Text /\ This.kind = "text"
           /\ \E to :
                /\ Written(to)
                /\ \/ /\ stage'.texts = stage.texts
                      /\ to \in DOMAIN stage.texts /\ stage.texts[to].text = Stored(This.name)
                   \/ \E key \in Key :
                        /\ stage'.texts = Append(stage.texts, [key |-> key, text |-> Stored(This.name)])
                        /\ to = Len(stage.texts) + 1
  <1>1. At("run") /\ stage.n # 0 /\ This.kind = "text" /\ AtOperand
    BY DEF UseText, Compiles, AtOperand, InBlock, InUnit, InPart
  <1>2. This.name \in Text
    BY <1>1, Places, TextOperands
  <1>3. At("run")' /\ stage'.n = stage.n
    BY Moved DEF Held, At
  <1>4. PICK c \in Choice(stage.texts, This.name) :
          \/ \E j \in KeyIndex(stage.texts, Keys(This.name)[c]) : stage' = Advanced /\ Written(j)
          \/ /\ stage' = [Advanced EXCEPT
                   !.texts = Append(@, [key |-> Keys(This.name)[c], text |-> Stored(This.name)])]
             /\ Written(Len(stage.texts) + 1)
    BY DEF UseText
  <1> DEFINE key == Keys(This.name)[c]
  <1>5. key \in Key /\ MayHave(stage.texts, key, This.name)
    <2>1. c \in DOMAIN Keys(This.name) /\ MayHave(stage.texts, key, This.name)
      BY DEF Choice, Earliest
    <2>2. Keys(This.name) \in Seq(Key)
      BY <1>2, CompilerAssumption
    <2> QED BY <2>1, <2>2
  <1>6. CASE \E j \in KeyIndex(stage.texts, key) : stage' = Advanced /\ Written(j)
    <2>1. PICK j \in KeyIndex(stage.texts, key) : stage' = Advanced /\ Written(j)
      BY <1>6
    <2>2. stage'.texts = stage.texts
      BY <2>1 DEF Advanced, Types, Fields
    <2>3. j \in DOMAIN stage.texts
      BY <2>1 DEF KeyIndex
    <2>4. stage.texts[j].text = Stored(This.name)
      BY <1>5, <2>1 DEF MayHave
    <2> QED BY <1>1, <1>2, <1>3, <2>1, <2>2, <2>3, <2>4
  <1>7. CASE /\ stage' = [Advanced EXCEPT
                   !.texts = Append(@, [key |-> key, text |-> Stored(This.name)])]
             /\ Written(Len(stage.texts) + 1)
    <2>1. stage'.texts = Append(stage.texts, [key |-> key, text |-> Stored(This.name)])
      BY <1>7 DEF Advanced, Types, Fields
    <2> HIDE DEF key
    <2> QED BY <1>1, <1>2, <1>3, <1>5, <1>7, <2>1
  <1> QED BY <1>4, <1>6, <1>7

\* A text operand keeps every mention at its text.
LEMMA TextsLeadUse ==
    ASSUME Types, TextsLead, UseText
    PROVE  TextsLead'
  <1>1. /\ At("run") /\ stage.n # 0 /\ At("run")' /\ stage'.n = stage.n
        /\ This.name \in Text /\ This.kind = "text"
    BY TextUsed
  <1>2. PICK to :
          /\ Written(to)
          /\ \/ /\ stage'.texts = stage.texts
                /\ to \in DOMAIN stage.texts /\ stage.texts[to].text = Stored(This.name)
             \/ \E key \in Key :
                  /\ stage'.texts = Append(stage.texts, [key |-> key, text |-> Stored(This.name)])
                  /\ to = Len(stage.texts) + 1
    BY TextUsed
  <1> SUFFICES ASSUME ~failed', NoneIsEmpty' PROVE Lead(code', Texts')
    BY DEF TextsLead
  <1>3. ~failed /\ ~At("init")
    BY <1>1 DEF UseText, At
  <1> DEFINE m == [place |-> <<stage.n, stage.part, stage.unit, stage.block, stage.i>>, to |-> to,
                   role |-> This.role, kind |-> This.kind, name |-> This.name]
  <1>4. code' = code \cup {m} /\ m.to = to /\ m.kind = "text" /\ m.name = This.name
    BY <1>1, <1>2 DEF Written
  <1> HIDE DEF m
  <1>5. Lead(code, stage.texts) /\ Texts' = stage'.texts
    BY <1>1, <1>3, <1>4, MentionsStay DEF TextsLead, Texts
  <1>6. Stored(m.name) # Empty
    BY <1>4 DEF NoneIsEmpty, Mentions
  <1>7. CASE /\ stage'.texts = stage.texts
             /\ to \in DOMAIN stage.texts /\ stage.texts[to].text = Stored(This.name)
    <2>1. to \in 1..Len(stage.texts)
      BY <1>5, <1>7 DEF Lead
    <2> QED BY <1>4, <1>5, <1>7, <2>1 DEF Lead
  <1>8. ASSUME NEW key \in Key,
               stage'.texts = Append(stage.texts, [key |-> key, text |-> Stored(This.name)]),
               to = Len(stage.texts) + 1
        PROVE  Lead(code', Texts')
    <2> DEFINE e == [key |-> key, text |-> Stored(This.name)]
    <2>1. e \in Entry /\ e.text = Stored(This.name)
      BY <1>1 DEF Entry
    <2>2. stage.texts \in Seq(Entry)
      BY <1>5 DEF Lead
    <2>3. stage'.texts = Append(stage.texts, e)
      BY <1>8
    <2> HIDE DEF e
    <2>4. /\ stage'.texts \in Seq(Entry) /\ Len(stage'.texts) = Len(stage.texts) + 1
          /\ stage'.texts[to] = e /\ \A j \in 1..Len(stage.texts) : stage'.texts[j] = stage.texts[j]
      BY <1>8, <2>1, <2>2, <2>3
    <2>5. \A j \in 1..Len(stage'.texts) : j \in 1..Len(stage.texts) \/ j = to
      BY <1>8, <2>2, <2>4
    <2>6. to \in 1..Len(stage'.texts)
      BY <1>8, <2>2, <2>4
    <2>7. \A j \in 1..Len(stage'.texts) : stage'.texts[j].text # Empty
      BY <1>4, <1>5, <1>6, <2>1, <2>4, <2>5 DEF Lead
    <2>8. ASSUME NEW old \in code, old.kind = "text"
          PROVE  old.to \in 1..Len(stage'.texts) /\ stage'.texts[old.to].text = Stored(old.name)
      <3>1. old.to \in 1..Len(stage.texts) /\ stage.texts[old.to].text = Stored(old.name)
        BY <1>5, <2>8 DEF Lead
      <3> QED BY <2>2, <2>4, <3>1
    <2>9. m.to \in 1..Len(stage'.texts) /\ stage'.texts[m.to].text = Stored(m.name)
      BY <1>4, <2>1, <2>4, <2>6
    <2> QED BY <1>4, <1>5, <2>4, <2>7, <2>8, <2>9 DEF Lead
  <1> QED BY <1>2, <1>5, <1>7, <1>8

\* Every step keeps it: only a load could lose an entry, and none is empty.
LEMMA TextsLeadStep == RegInv /\ TextsLead /\ [Next]_vars => TextsLead'
  <1> SUFFICES ASSUME RegInv, TextsLead, [Next]_vars PROVE TextsLead'
    OBVIOUS
  <1>1. Types
    BY DEF RegInv
  <1>2. CASE Initialize
    <2>1. /\ stage'.pc = "load" /\ ~At("run")' /\ disk'.texts = <<>> /\ UNCHANGED <<failed, code>>
      BY <1>2 DEF Initialize, Ready, At
    <2>2. ~failed => code = {}
      BY <1>2 DEF RegInv, Register, Initialize, Types
    <2>3. ~failed => Lead(code', Texts')
      BY <2>1, <2>2 DEF Lead, Texts
    <2> QED BY <2>1, <2>3 DEF TextsLead
  <1>3. CASE Load
    <2>1. /\ At("load") /\ At("run")' /\ stage'.n = stage.n /\ stage'.texts = Loaded(disk.texts)
          /\ UNCHANGED <<disk, failed, code>>
      BY <1>1, <1>3 DEF Load, At, Types, Fields
    <2>2. Texts = disk.texts /\ ~At("init") /\ (NoneIsEmpty' <=> NoneIsEmpty)
      BY <2>1 DEF Texts, At, NoneIsEmpty, Mentions
    <2>3. SUFFICES ASSUME ~failed, NoneIsEmpty PROVE Lead(code', Texts')
      BY <2>1, <2>2 DEF TextsLead
    <2>4. Lead(code, disk.texts)
      BY <2>2, <2>3 DEF TextsLead
    <2>5. Loaded(disk.texts) = disk.texts
      BY <2>4, LoadedAsItIs DEF Lead
    <2>6. Texts' = disk.texts
      BY <2>1, <2>5 DEF Texts
    <2> QED BY <2>1, <2>4, <2>6
  <1>4. CASE Save
    <2>1. /\ At("run") /\ stage'.pc = "load" /\ disk'.texts = Texts /\ UNCHANGED <<failed, code>>
      BY <1>4 DEF Save, Saved, Ready, Texts, At
    <2>2. ~At("init") /\ Texts' = Texts
      BY <2>1 DEF Texts, At
    <2> QED BY <2>1, <2>2, TextsUnmoved
  <1>5. CASE NextPart \/ NextUnit \/ NextBlock \/ UseLocal \/ UseId
    <2>1. Held /\ UNCHANGED disk
      BY <1>1, <1>5, Moved
    <2>2. stage'.texts = stage.texts
      <3>1. CASE NextPart
        BY <1>1, <3>1 DEF NextPart, UnitLeft, Types, Fields
      <3>2. CASE NextUnit
        BY <1>1, <3>2 DEF NextUnit, UnitLeft, Types, Fields
      <3>3. CASE NextBlock
        BY <1>1, <3>3 DEF NextBlock, Types, Fields
      <3>4. CASE UseLocal
        <4>1. PICK locals : stage' = [Advanced EXCEPT !.locals = locals]
          BY <3>4 DEF UseLocal
        <4> QED BY <1>1, <4>1 DEF Advanced, Types, Fields
      <3>5. CASE UseId
        BY <1>1, <3>5 DEF UseId, Advanced, Types, Fields
      <3> QED BY <1>5, <3>1, <3>2, <3>3, <3>4, <3>5
    <2>3. Texts' = Texts /\ ~At("init")
      BY <2>1, <2>2 DEF Texts, Held, At
    <2>4. code \subseteq code' /\ \A m \in code' : m \in code \/ m.kind # "text"
      <3>1. CASE NextPart \/ NextUnit \/ NextBlock
        BY <3>1 DEF NextPart, NextUnit, NextBlock
      <3>2. CASE UseLocal \/ UseId
        <4>1. This.kind # "text" /\ \E to : Written(to)
          BY <3>2 DEF UseLocal, UseId, Compiles
        <4> QED BY <4>1 DEF Written
      <3> QED BY <1>5, <3>1, <3>2
    <2>5. ~failed' => ~failed
      <3>1. CASE NextPart \/ NextUnit \/ NextBlock
        BY <3>1 DEF NextPart, NextUnit, NextBlock
      <3>2. CASE UseLocal
        <4>1. failed' = failed \/ failed' = TRUE
          BY <3>2 DEF UseLocal
        <4> QED BY <4>1, Zenon
      <3>3. CASE UseId
        <4>1. failed' = (failed \/ This.name \notin Known)
          BY <3>3 DEF UseId
        <4> QED BY <4>1, Zenon
      <3> QED BY <1>5, <3>1, <3>2, <3>3
    <2> QED BY <2>3, <2>4, <2>5, TextsUnmoved
  <1>6. CASE Scan
    <2>1. stage.n = 0 /\ UNCHANGED <<disk, failed, code>>
      BY <1>6 DEF Scan
    <2>2. Held
      BY <1>1, <1>6, Scanned
    <2>3. Texts' = Texts /\ ~At("init")
      BY <2>1, <2>2 DEF Texts, Held, At
    <2> QED BY <2>1, <2>3, TextsUnmoved
  <1>7. CASE UseGlobal
    <2>1. /\ Held /\ \E to : Written(to)
      BY <1>1, <1>7, Used
    <2>2. This.kind # "text" /\ UNCHANGED <<disk, failed>>
      BY <1>7 DEF UseGlobal, Compiles
    <2>3. stage'.texts = stage.texts
      BY <1>1, <1>7 DEF UseGlobal, Advanced, Types, Fields
    <2>4. Texts' = Texts /\ ~At("init")
      BY <2>1, <2>2, <2>3 DEF Texts, Held, At
    <2>5. code \subseteq code' /\ \A m \in code' : m \in code \/ m.kind # "text"
      BY <2>1, <2>2 DEF Written
    <2> QED BY <2>2, <2>4, <2>5, TextsUnmoved
  <1>8. CASE UseText
    BY <1>1, <1>8, TextsLeadUse
  <1>9. CASE Raise
    BY <1>9 DEF Raise, TextsLead
  <1>10. CASE Warn
    <2>1. At("load") /\ stage'.pc = "done" /\ UNCHANGED <<disk, failed, code>>
      BY <1>1, <1>10 DEF Warn, Types, Fields, At
    <2>2. Texts' = Texts /\ ~At("init")
      BY <2>1 DEF Texts, At
    <2> QED BY <2>1, <2>2, TextsUnmoved
  <1>11. CASE Rebuild
    BY <1>11 DEF Rebuild, Ready, At, TextsLead
  <1>12. CASE UNCHANGED vars
    BY <1>12 DEF vars, TextsLead, Texts, NoneIsEmpty, Mentions, At, Lead
  <1> QED BY <1>2, <1>3, <1>4, <1>5, <1>6, <1>7, <1>8, <1>9, <1>10, <1>11, <1>12 DEF Next

\* In an accepted build every text that the code refers to is at its index in the
\* file, though ids are cut short and shared and each stage appends its own.
THEOREM TextsFindTheirOwn == Spec => []TextsAreTheirOwn
  <1>1. Init => TextsLead
    BY DEF Init, TextsLead, At
  <1>2. RegInv /\ TextsLead => TextsAreTheirOwn
    <2>1. SUFFICES ASSUME TextsLead, Accepted, NoneIsEmpty, NEW m \in Mentions("text")
                   PROVE  disk.texts[m.to].text = Stored(m.name)
      BY DEF TextsAreTheirOwn, NoneIsEmpty
    <2>2. Lead(code, Texts) /\ Texts = disk.texts
      BY <2>1 DEF TextsLead, Accepted, Texts, At
    <2> QED BY <2>1, <2>2 DEF Lead, Mentions
  <1> QED BY <1>1, <1>2, RegInit, RegStep, TextsLeadStep, PTL DEF Spec

===============================================================================
