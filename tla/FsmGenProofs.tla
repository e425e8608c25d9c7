---------------------------- MODULE FsmGenProofs ----------------------------
(***************************************************************************)
(* Theorems about one run of fsm-gen, for every workspace and reference    *)
(* graph, all settings, any files under the output and any depth of the    *)
(* stack, with every file operation free to fail.                          *)
(*                                                                         *)
(* The sub-machines of a definition are the least set closed under         *)
(* references; with no induction to hand, facts about them come from their *)
(* being closed and their being the least, and facts about finite sets of  *)
(* machines from well-founded orders and the pigeonhole principle.         *)
(***************************************************************************)
EXTENDS FsmGen, TLAPS, FiniteSetTheorems, SequenceTheorems

-----------------------------------------------------------------------------
(* Among finitely many numbers there is a greatest.                        *)
LEMMA MaxExists ==
  ASSUME NEW k \in Nat, NEW I \in SUBSET (1..k), I # {}
  PROVE  \E m \in I : \A j \in I : j <= m
<1> DEFINE T == {k - i : i \in I}
           Less == OpToRel(<, Nat)
<1>1. T \subseteq Nat /\ T # {}
  <2> HIDE DEF Less
  <2>1. \A i \in I : k - i \in Nat
    OBVIOUS
  <2> QED
    BY <2>1
<1>2. \A x, y \in Nat : x < y => <<x, y>> \in Less
  BY DEF OpToRel
<1>3. IsWellFoundedOn(Less, Nat)
  BY NatLessThanWellFounded
<1> HIDE DEF Less
<1>4. PICK x \in T : \A y \in T : <<y, x>> \notin Less
  <2> HIDE DEF T
  <2> QED
    BY <1>1, <1>3, WFMin
<1>5. PICK m \in I : x = k - m
  OBVIOUS
<1>6. ASSUME NEW j \in I PROVE j <= m
  <2>1. ~(k - j < k - m)
    BY <1>1, <1>2, <1>4, <1>5
  <2> QED
    BY <2>1
<1> QED
  BY <1>6

(* Definition(found, n) is the last definition with that name.             *)
LEMMA LastDefinition ==
  ASSUME NEW S, NEW F \in Seq(S), NEW n \in Names(F)
  PROVE  \E i \in DOMAIN F :
           /\ F[i].name = n
           /\ \A j \in DOMAIN F : F[j].name = n => j <= i
           /\ Definition(F, n) = F[i]
<1> DEFINE I == {i \in DOMAIN F : F[i].name = n}
           Latest(i) == F[i].name = n /\ \A j \in DOMAIN F : F[j].name = n => j <= i
<1>1. Len(F) \in Nat /\ I \in SUBSET (1..Len(F)) /\ I # {}
  BY DEF Names
<1>2. PICK m \in I : \A j \in I : j <= m
  <2> HIDE DEF I
  <2> QED
    BY <1>1, MaxExists
<1>3. m \in DOMAIN F /\ Latest(m)
  BY <1>2
<1>4. (CHOOSE i \in DOMAIN F : Latest(i)) \in DOMAIN F
      /\ Latest(CHOOSE i \in DOMAIN F : Latest(i))
  <2> HIDE DEF Latest
  <2> QED
    BY <1>3
<1> QED
  BY <1>4 DEF Definition

(* The sub-machines of a definition, as a least fixed point.               *)
LEMMA SubFsmsClosed ==
  ASSUME NEW w, NEW F, NEW d
  PROVE  /\ SubFsms(w, F, d) \subseteq Names(F)
         /\ Children(w, F, d) \subseteq SubFsms(w, F, d)
         /\ \A m \in SubFsms(w, F, d) :
              Children(w, F, Definition(F, m)) \subseteq SubFsms(w, F, d)
<1>1. Children(w, F, d) \subseteq Names(F) /\ SubFsms(w, F, d) \subseteq Names(F)
  BY DEF Children, SubFsms
<1>2. Children(w, F, d) \subseteq SubFsms(w, F, d)
  BY <1>1 DEF SubFsms
<1>3. ASSUME NEW m \in SubFsms(w, F, d), NEW n \in Children(w, F, Definition(F, m))
      PROVE  n \in SubFsms(w, F, d)
  <2>1. n \in Names(F)
    BY <1>3 DEF Children
  <2> QED
    BY <1>3, <2>1 DEF SubFsms
<1> QED
  BY <1>1, <1>2, <1>3

LEMMA SubFsmsLeast ==
  ASSUME NEW w, NEW F, NEW d, NEW S \in SUBSET Names(F),
         Children(w, F, d) \subseteq S,
         \A m \in S : Children(w, F, Definition(F, m)) \subseteq S
  PROVE  SubFsms(w, F, d) \subseteq S
BY DEF SubFsms

LEMMA SubFsmsTransitive ==
  ASSUME NEW w, NEW F, NEW d, NEW m \in SubFsms(w, F, d)
  PROVE  SubFsms(w, F, Definition(F, m)) \subseteq SubFsms(w, F, d)
BY SubFsmsClosed, SubFsmsLeast

(* A sub-machine is one that some definition refers to, so no root is      *)
(* among the sub-machines of any definition.                               *)
LEMMA NoRootBelow ==
  ASSUME NEW w, NEW S, NEW F \in Seq(S), NEW k \in DOMAIN F, NEW r \in Roots(w, F)
  PROVE  F[r].name \notin SubFsms(w, F, F[k])
<1> DEFINE R == {n \in Names(F) : \E j \in DOMAIN F : <<n>> \in Referenced(w, F[j])}
<1>1. Children(w, F, F[k]) \subseteq R
  BY DEF Children
<1>2. ASSUME NEW m \in R PROVE Children(w, F, Definition(F, m)) \subseteq R
  <2>1. PICK i \in DOMAIN F : Definition(F, m) = F[i]
    BY LastDefinition
  <2> QED
    BY <2>1 DEF Children
<1>3. SubFsms(w, F, F[k]) \subseteq R
  <2> HIDE DEF R
  <2>1. R \in SUBSET Names(F)
    BY DEF R
  <2> QED
    BY <1>1, <1>2, <2>1, SubFsmsLeast
<1>4. F[r].name \notin R
  BY DEF Roots
<1> QED
  BY <1>3, <1>4

LEMMA NamesFinite ==
  ASSUME NEW S, NEW F \in Seq(S)
  PROVE  IsFiniteSet(Names(F))
<1> DEFINE nameOf == [i \in 1..Len(F) |-> F[i].name]
<1>1. nameOf \in Surjection(1..Len(F), Names(F))
  BY DEF Surjection, Names
<1>2. IsFiniteSet(1..Len(F))
  BY FS_Interval
<1> HIDE DEF nameOf
<1> QED
  BY <1>1, <1>2, FS_Surjection

(* Where no machine contains itself, every machine is a root or below one: *)
(* of its ancestors take one with the fewest ancestors.                    *)
LEMMA UnderSomeRoot ==
  ASSUME NEW w, NEW S, NEW F \in Seq(S), NEW n \in Names(F),
         \A m \in Names(F) : m \notin SubFsms(w, F, Definition(F, m)),
         \A i, j \in DOMAIN F : F[i].name = F[j].name => i = j
  PROVE  \E r \in Roots(w, F) : F[r].name = n \/ n \in SubFsms(w, F, F[r])
<1> DEFINE Below(m) == SubFsms(w, F, Definition(F, m))
           Above(m) == {a \in Names(F) : m \in Below(a)}
           T == {Above(m) : m \in Above(n) \cup {n}}
           Fewer == StrictSubsetOrdering(Names(F))
<1>1. IsWellFoundedOn(Fewer, FiniteSubsetsOf(Names(F)))
  BY FS_StrictSubsetOrderingWellFounded
<1>2. T \subseteq FiniteSubsetsOf(Names(F)) /\ T # {}
  <2>1. \A m : Above(m) \in FiniteSubsetsOf(Names(F))
    BY NamesFinite, FS_FiniteSubsetsOfFinite
  <2> HIDE DEF Above
  <2> QED
    BY <2>1
<1>3. PICK A \in T : \A B \in T : <<B, A>> \notin Fewer
  <2> HIDE DEF T, Fewer
  <2> QED
    BY <1>1, <1>2, WFMin
<1>4. PICK m \in Above(n) \cup {n} : A = Above(m)
  OBVIOUS
<1>5. PICK r \in DOMAIN F : F[r].name = m /\ Definition(F, m) = F[r]
  BY LastDefinition
<1>6. ASSUME NEW k \in DOMAIN F, <<m>> \in Referenced(w, F[k]) PROVE FALSE
  <2> DEFINE p == F[k].name
  <2>1. p \in Names(F) /\ m \in Names(F)
    BY DEF Names
  <2>2. Definition(F, p) = F[k]
    BY <2>1, LastDefinition
  <2>3. m \in Below(p)
    BY <1>6, <2>1, <2>2, SubFsmsClosed DEF Children
  <2>4. ASSUME NEW a \in Above(p) PROVE a \in Above(m)
    <3>1. Below(p) \subseteq Below(a)
      BY <2>4, SubFsmsTransitive
    <3> QED
      BY <2>3, <3>1
  <2>5. p \in Above(m) /\ p \notin Above(p)
    BY <2>1, <2>3
  <2>6. p \in Above(n)
    <3>1. CASE m = n
      BY <2>5, <3>1
    <3>2. CASE m \in Above(n)
      <4>1. Below(m) \subseteq Below(p)
        BY <2>3, SubFsmsTransitive
      <4> QED
        BY <2>1, <3>2, <4>1
    <3> QED
      BY <3>1, <3>2
  <2>7. <<Above(p), Above(m)>> \in Fewer
    BY <2>4, <2>5 DEF StrictSubsetOrdering
  <2> QED
    BY <1>3, <1>4, <2>6, <2>7
<1>7. r \in Roots(w, F)
  BY <1>5, <1>6 DEF Roots
<1> QED
  BY <1>4, <1>5, <1>7

-----------------------------------------------------------------------------
(* The values the variables range over, and what is still empty when.      *)
Phases == {"config", "scan", "clean", "generate", "done", "failed", "crashed"}
StatesOfAll == UNION {DOMAIN d.states : d \in Definitions}
Frames == [def : Definitions, calls : SUBSET (StatesOfAll \X MachineNames)]

GenTypes ==
  /\ ws \in Workspaces /\ settings \in Settings
  /\ phase \in Phases /\ unread \subseteq 1..Len(ws.files)
  /\ found \in Seq(Definitions) /\ roots \subseteq Roots(ws, found)
  /\ current \in Diagrams \cup {Unset} /\ todo \subseteq Diagrams
  /\ stack \in Seq(Frames) /\ drawn \subseteq Definitions

Progress ==
  /\ phase \in {"clean", "generate", "done", "crashed"} => unread = {}
  /\ phase \in {"scan", "clean", "generate", "done"} =>
       options.breakdown \in {"None", "Flat", "Nested", "Both"}
  /\ phase \in {"config", "scan", "clean", "done"} =>
       roots = {} /\ current = Unset /\ todo = {} /\ drawn = {}
  /\ stack # <<>> => phase = "generate" /\ drawn # {}
  /\ drawn # {} => current # Unset

(* The open calls of populate_builder_hierarchical, outermost first: each  *)
(* is of a sub-machine of all those that are open around it.               *)
OpenCalls ==
  /\ Len(stack) <= StackDepth
  /\ \A k \in DOMAIN stack :
       /\ \A c \in stack[k].calls : c[2] \in Children(ws, found, stack[k].def)
       /\ IF k = 1 THEN stack[k].def = current.def
                   ELSE stack[k].def = Definition(found, stack[k].def.name)
       /\ \A j \in 1..(k - 1) : stack[k].def.name \in SubFsms(ws, found, stack[j].def)

GInv == GenTypes /\ Progress /\ OpenCalls

LEMMA NamesOfFound ==
  ASSUME NEW F \in Seq(Definitions)
  PROVE  /\ Names(F) \subseteq MachineNames
         /\ \A n \in Names(F) : Definition(F, n) \in Definitions /\ Definition(F, n).name = n
         /\ \A i \in DOMAIN F : F[i] \in Definitions /\ F[i].name \in Names(F)
<1>1. \A i \in DOMAIN F : F[i] \in Definitions
  OBVIOUS
<1>2. \A n \in Names(F) : Definition(F, n) \in Definitions /\ Definition(F, n).name = n
  BY <1>1, LastDefinition
<1> QED
  BY <1>1, <1>2 DEF Names, MachineNames

LEMMA CallOfTyped ==
  ASSUME found \in Seq(Definitions), NEW d \in Definitions
  PROVE  /\ CallOf(d) \in Frames /\ CallOf(d).def = d
         /\ \A n : n \in Children(ws, found, d) <=> \E c \in CallOf(d).calls : c[2] = n
<1> DEFINE calls == {c \in (DOMAIN d.states) \X Names(found) :
                       <<c[2]>> \in ReferencedInState(ws, d, d.states[c[1]])}
<1>1. CallOf(d) = [def |-> d, calls |-> calls]
  BY DEF CallOf
<1>2. calls \subseteq StatesOfAll \X MachineNames
  <2>1. Names(found) \subseteq MachineNames
    BY NamesOfFound
  <2>2. DOMAIN d.states \subseteq StatesOfAll
    BY DEF StatesOfAll
  <2>3. calls \subseteq (DOMAIN d.states) \X Names(found)
    OBVIOUS
  <2> HIDE DEF calls
  <2> QED
    BY <2>1, <2>2, <2>3
<1>3. \A n : n \in Children(ws, found, d) <=> \E c \in calls : c[2] = n
  <2>1. \A n : n \in Children(ws, found, d) <=>
           n \in Names(found) /\ \E s \in DOMAIN d.states :
                                   <<n>> \in ReferencedInState(ws, d, d.states[s])
    BY DEF Children, Referenced
  <2>2. ASSUME NEW n, NEW s \in DOMAIN d.states, n \in Names(found),
               <<n>> \in ReferencedInState(ws, d, d.states[s])
        PROVE  \E c \in calls : c[2] = n
    <3>1. <<s, n>> \in calls
      BY <2>2
    <3> QED
      BY <3>1
  <2>3. ASSUME NEW c \in calls
        PROVE  c[2] \in Names(found) /\ \E s \in DOMAIN d.states :
                 <<c[2]>> \in ReferencedInState(ws, d, d.states[s])
    BY <2>3
  <2> HIDE DEF calls
  <2> QED
    BY <2>1, <2>2, <2>3
<1> HIDE DEF calls
<1>4. CallOf(d) \in Frames
  BY <1>1, <1>2 DEF Frames
<1> QED
  BY <1>1, <1>3, <1>4

(* A diagram of a breakdown: the path names its directory and its machine. *)
LEMMA BreakdownTyped ==
  ASSUME GInv, phase = "generate", NEW r \in DOMAIN found, NEW d \in Breakdowns(found[r])
  PROVE  /\ d \in Diagrams
         /\ \E n \in SubFsms(ws, found, found[r]),
               dir \in {"breakdown", "breakdown_flat", "breakdown_nested"} :
              d.def = Definition(found, n) /\ d.path = <<found[r].name, dir, n>>
<1>1. found \in Seq(Definitions) /\ options.breakdown \in {"None", "Flat", "Nested", "Both"}
  BY DEF GInv, GenTypes, Progress
<1>2. PICK dir \in {"breakdown", "breakdown_flat", "breakdown_nested"}, b \in BOOLEAN :
        d \in Breakdown(found[r], dir, b)
  BY <1>1 DEF Breakdowns
<1>3. PICK n \in SubFsms(ws, found, found[r]) :
        d = Diagram(Definition(found, n), <<found[r].name, dir, n>>, b)
  BY <1>2 DEF Breakdown
<1>4. n \in Names(found) /\ Definition(found, n) \in Definitions
      /\ found[r].name \in MachineNames /\ n \in MachineNames
  BY <1>1, <1>3, NamesOfFound, SubFsmsClosed
<1>5. <<found[r].name, dir, n>> \in DiagramPaths
  BY <1>4 DEF DiagramPaths
<1>6. /\ d = [def |-> Definition(found, n), path |-> <<found[r].name, dir, n>>, nested |-> b]
      /\ b \in BOOLEAN
  BY <1>2, <1>3 DEF Diagram
<1>7. d.def = Definition(found, n) /\ d.path = <<found[r].name, dir, n>>
  BY <1>6
<1>8. d \in Diagrams
  BY <1>4, <1>5, <1>6 DEF Diagrams
<1> QED
  BY <1>7, <1>8

LEMMA GenInit == Init => GInv
<1> SUFFICES ASSUME Init PROVE GInv
  OBVIOUS
<1> USE DEF Init
<1>1. <<>> \in Seq(Definitions) /\ <<>> \in Seq(Frames)
  OBVIOUS
<1>2. GenTypes
  BY <1>1 DEF GenTypes, Phases
<1>3. Progress
  BY DEF Progress
<1>4. OpenCalls
  BY DepthAssumption DEF OpenCalls
<1> QED
  BY <1>2, <1>3, <1>4 DEF GInv

(* A frame changes, goes or comes.                                         *)
LEMMA FrameLemma ==
  ASSUME NEW s \in Seq(Frames), s # <<>>, NEW call
  PROVE  /\ s[Len(s)] \in Frames /\ Len(s) \in Nat /\ Len(s) # 0
         /\ [s EXCEPT ![Len(s)].calls = @ \ {call}] \in Seq(Frames)
         /\ Front(s) \in Seq(Frames) /\ Len(Front(s)) = Len(s) - 1
         /\ \A k \in DOMAIN Front(s) : Front(s)[k] = s[k]
<1>1. Len(s) \in Nat /\ Len(s) # 0 /\ s[Len(s)] \in Frames /\ s \in [1..Len(s) -> Frames]
  OBVIOUS
<1>2. [s[Len(s)] EXCEPT !.calls = @ \ {call}] \in Frames
  BY <1>1 DEF Frames
<1>3. [s EXCEPT ![Len(s)].calls = @ \ {call}] \in Seq(Frames)
  BY <1>1, <1>2
<1>4. Front(s) = SubSeq(s, 1, Len(s) - 1) /\ \A i \in 1..(Len(s) - 1) : s[i] \in Frames
  BY <1>1 DEF Front
<1>5. /\ Front(s) \in Seq(Frames)
      /\ Len(Front(s)) = IF 1 <= Len(s) - 1 THEN (Len(s) - 1) - 1 + 1 ELSE 0
      /\ \A i \in 1..((Len(s) - 1) - 1 + 1) : Front(s)[i] = s[1 + i - 1]
  BY <1>1, <1>4, SubSeqProperties
<1>6. Len(Front(s)) = Len(s) - 1 /\ DOMAIN Front(s) = 1..(Len(s) - 1)
  <2>1. ASSUME NEW N \in Nat, N # 0
        PROVE  (IF 1 <= N - 1 THEN (N - 1) - 1 + 1 ELSE 0) = N - 1
    BY <2>1
  <2>2. Len(Front(s)) = Len(s) - 1
    BY ONLY <1>1, <1>5, <2>1
  <2>3. DOMAIN Front(s) = 1..Len(Front(s))
    BY ONLY <1>5
  <2> QED
    BY <2>2, <2>3
<1>7. ASSUME NEW k \in DOMAIN Front(s) PROVE Front(s)[k] = s[k]
  <2>1. ASSUME NEW N \in Nat, k \in 1..(N - 1)
        PROVE  k \in 1..((N - 1) - 1 + 1) /\ 1 + k - 1 = k
    BY <2>1
  <2> QED
    BY ONLY <1>1, <1>5, <1>6, <2>1, k \in DOMAIN Front(s)
<1> QED
  BY <1>1, <1>3, <1>5, <1>6, <1>7

LEMMA PushLemma ==
  ASSUME NEW s \in Seq(Frames), s # <<>>, NEW call, NEW f \in Frames,
         NEW t, t = Append([s EXCEPT ![Len(s)].calls = @ \ {call}], f)
  PROVE  /\ Len(t) = Len(s) + 1 /\ DOMAIN t = 1..(Len(s) + 1) /\ t[Len(s) + 1] = f
         /\ \A k \in 1..Len(s) : t[k].def = s[k].def /\ t[k].calls \subseteq s[k].calls
         /\ \A k \in 1..Len(s) : \A c \in s[k].calls : c \in t[k].calls \/ c = call
<1> DEFINE rest == [s EXCEPT ![Len(s)].calls = @ \ {call}]
<1>1. Len(s) \in Nat /\ s \in [1..Len(s) -> Frames] /\ DOMAIN s = 1..Len(s)
  OBVIOUS
<1>2. rest \in Seq(Frames)
  BY FrameLemma
<1>3. DOMAIN rest = 1..Len(s)
  BY <1>1
<1>4. Len(rest) = Len(s)
  <2> HIDE DEF rest
  <2> QED
    BY <1>1, <1>2, <1>3
<1>5. ASSUME NEW k \in 1..Len(s)
      PROVE  /\ rest[k].def = s[k].def /\ rest[k].calls \subseteq s[k].calls
             /\ \A c \in s[k].calls : c \in rest[k].calls \/ c = call
  BY <1>1 DEF Frames
<1>6. t = Append(rest, f)
  OBVIOUS
<1> HIDE DEF rest
<1>7. /\ Len(t) = Len(rest) + 1 /\ DOMAIN t = 1..(Len(rest) + 1) /\ t[Len(rest) + 1] = f
      /\ \A k \in 1..Len(rest) : t[k] = rest[k]
  <2>1. /\ t \in Seq(Frames) /\ Len(t) = Len(rest) + 1
        /\ \A k \in 1..Len(rest) : t[k] = rest[k]
        /\ t[Len(rest) + 1] = f
    <3>1. /\ Append(rest, f) \in Seq(Frames) /\ Len(Append(rest, f)) = Len(rest) + 1
          /\ \A k \in 1..Len(rest) : Append(rest, f)[k] = rest[k]
          /\ Append(rest, f)[Len(rest) + 1] = f
      BY ONLY <1>2, f \in Frames, AppendProperties
    <3> QED
      BY ONLY <1>6, <3>1
  <2>2. DOMAIN t = 1..Len(t)
    BY <2>1
  <2> QED
    BY <2>1, <2>2
<1> QED
  BY <1>4, <1>5, <1>7

(* The root's own diagram.                                                 *)
Own(r) == Diagram(found[r], <<found[r].name, found[r].name>>, options.mode = "Hierarchical")

LEMMA OwnTyped ==
  ASSUME found \in Seq(Definitions), NEW r \in DOMAIN found
  PROVE  /\ Own(r) \in Diagrams /\ Own(r).def = found[r]
         /\ Own(r).path = <<found[r].name, found[r].name>>
         /\ Own(r).nested = (options.mode = "Hierarchical")
<1>1. found[r] \in Definitions /\ found[r].name \in MachineNames
  BY NamesOfFound
<1>2. <<found[r].name, found[r].name>> \in DiagramPaths
  BY <1>1 DEF DiagramPaths
<1> QED
  BY <1>1, <1>2 DEF Own, Diagram, Diagrams

LEMMA TypesStep == GInv /\ [Next]_vars => GenTypes' /\ Progress'
<1> SUFFICES ASSUME GInv, [Next]_vars PROVE GenTypes' /\ Progress'
  OBVIOUS
<1> USE DEF GInv, run, cleaning, drawing
<1>1. CASE ReadConfig
  <2>1. options'.breakdown \in {"None", "Flat", "Nested", "Both"}
    <3>1. settings \in Settings
      BY DEF GenTypes
    <3> QED
      BY <1>1, <3>1, SettingsAssumption DEF ReadConfig, Given
  <2>2. phase' = "scan" /\ phase = "config"
        /\ UNCHANGED <<ws, settings, unread, found, roots, current, todo, stack, drawn>>
    BY <1>1 DEF ReadConfig
  <2>3. GenTypes'
    BY <2>2 DEF GenTypes, Phases
  <2>4. Progress'
    BY <2>1, <2>2 DEF Progress
  <2> QED
    BY <2>3, <2>4
<1>2. ASSUME NEW f \in unread, ScanFile(f) PROVE GenTypes' /\ Progress'
  <2>1. /\ phase = "scan" /\ unread' \subseteq unread /\ found' \in {found \o ws.files[f], found}
        /\ UNCHANGED <<ws, settings, phase, options, roots, current, todo, stack, drawn>>
    BY <1>2 DEF ScanFile
  <2>2. ws.files[f] \in Seq(Definitions)
    <3>1. ws.files \in Seq(Seq(Definitions)) /\ f \in 1..Len(ws.files)
      BY WorkspaceAssumption DEF GenTypes
    <3> QED
      BY <3>1
  <2>3. found' \in Seq(Definitions)
    <3>1. found \in Seq(Definitions)
      BY DEF GenTypes
    <3>2. found \o ws.files[f] \in Seq(Definitions)
      BY <2>2, <3>1
    <3> QED
      BY <2>1, <3>1, <3>2
  <2>4. roots = {}
    BY <2>1 DEF Progress
  <2>5. GenTypes'
    BY <2>1, <2>3, <2>4 DEF GenTypes
  <2>6. Progress'
    BY <2>1 DEF Progress
  <2> QED
    BY <2>5, <2>6
<1>3. CASE NothingFound \/ StartClean
  <2>1. /\ phase = "scan" /\ phase' \in {"done", "clean"} /\ unread = {}
        /\ UNCHANGED <<ws, settings, options, unread, found, roots, current, todo, stack, drawn>>
    BY <1>3 DEF NothingFound, StartClean
  <2> QED
    BY <2>1 DEF GenTypes, Progress, Phases
<1>4. ASSUME NEW p \in unclean, CleanFile(p) PROVE GenTypes' /\ Progress'
  BY <1>4 DEF CleanFile, GenTypes, Progress
<1>5. CASE FindRoots
  <2>1. /\ phase = "clean" /\ phase' = "generate" /\ roots' = Roots(ws, found)
        /\ UNCHANGED <<ws, settings, options, unread, found, current, todo, stack, drawn>>
    BY <1>5 DEF FindRoots
  <2> QED
    BY <2>1 DEF GenTypes, Progress, Phases
<1>6. ASSUME NEW r \in roots, NextRoot(r) PROVE GenTypes' /\ Progress'
  <2>1. /\ phase = "generate" /\ current = Unset /\ roots' = roots \ {r}
        /\ current' = Own(r) /\ todo' = Breakdowns(found[r])
        /\ UNCHANGED <<ws, settings, phase, options, unread, found, stack, drawn>>
    BY <1>6 DEF NextRoot, Idle, Own
  <2>2. r \in DOMAIN found
    BY DEF GenTypes, Roots
  <2>3. current' \in Diagrams /\ todo' \subseteq Diagrams
    BY <2>1, <2>2, OwnTyped, BreakdownTyped DEF GenTypes
  <2>4. GenTypes'
    BY <2>1, <2>3 DEF GenTypes
  <2>5. Progress'
    BY <2>1 DEF Progress
  <2> QED
    BY <2>4, <2>5
<1>7. ASSUME NEW d \in todo, NextDiagram(d) PROVE GenTypes' /\ Progress'
  BY <1>7 DEF NextDiagram, GenTypes, Progress
<1>8. CASE phase = "generate" /\ StartDrawing
  <2>1. /\ current # Unset /\ drawn' = {current.def}
        /\ stack' = IF current.nested THEN <<CallOf(current.def)>> ELSE <<>>
        /\ UNCHANGED <<ws, settings, phase, options, unread, found, roots, current, todo>>
    BY <1>8 DEF StartDrawing
  <2>2. current \in Diagrams /\ current.def \in Definitions /\ found \in Seq(Definitions)
    BY <2>1 DEF GenTypes, Diagrams
  <2>3. CallOf(current.def) \in Frames
    BY <2>2, CallOfTyped
  <2>4. stack' \in Seq(Frames) /\ drawn' \subseteq Definitions
    BY <2>1, <2>2, <2>3
  <2>5. GenTypes'
    BY <2>1, <2>4 DEF GenTypes
  <2>6. Progress'
    BY <1>8, <2>1 DEF Progress
  <2> QED
    BY <2>5, <2>6
<1>9. ASSUME stack # <<>>, NEW call \in Top.calls, Descend(call) PROVE GenTypes' /\ Progress'
  <2> DEFINE sub == Definition(found, call[2])
             rest == [stack EXCEPT ![Len(stack)].calls = @ \ {call}]
  <2>1. /\ drawn' = drawn \cup {sub} /\ stack' = Append(rest, CallOf(sub))
        /\ UNCHANGED <<ws, settings, phase, options, unread, found, roots, current, todo>>
    BY <1>9 DEF Descend
  <2>2. stack \in Seq(Frames) /\ found \in Seq(Definitions)
    BY DEF GenTypes
  <2>3. rest \in Seq(Frames) /\ Top \in Frames
    BY <1>9, <2>2, FrameLemma DEF Top
  <2>4. call[2] \in Names(found)
    <3>1. Len(stack) \in DOMAIN stack
      BY <1>9, <2>2, FrameLemma
    <3> QED
      BY <1>9, <3>1 DEF Top, OpenCalls, Children
  <2>5. sub \in Definitions
    BY <2>2, <2>4, NamesOfFound
  <2> HIDE DEF sub, rest
  <2>6. CallOf(sub) \in Frames
    BY <2>2, <2>5, CallOfTyped
  <2>7. stack' \in Seq(Frames) /\ drawn' \subseteq Definitions
    BY <2>1, <2>3, <2>5, <2>6 DEF GenTypes
  <2>8. GenTypes'
    BY <2>1, <2>7 DEF GenTypes
  <2>9. Progress'
    BY <1>9, <2>1 DEF Progress
  <2> QED
    BY <2>8, <2>9
<1>10. CASE Overflow
  <2>1. /\ stack # <<>> /\ stack' = <<>> /\ phase' = "crashed"
        /\ UNCHANGED <<ws, settings, options, unread, found, roots, current, todo, drawn>>
    BY <1>10 DEF Overflow
  <2>2. GenTypes'
    BY <2>1 DEF GenTypes, Phases
  <2>3. Progress'
    BY <2>1 DEF Progress
  <2> QED
    BY <2>2, <2>3
<1>11. CASE Return
  <2>1. /\ stack # <<>> /\ stack' = Front(stack)
        /\ UNCHANGED <<ws, settings, phase, options, unread, found, roots, current, todo, drawn>>
    BY <1>11 DEF Return
  <2>2. stack' \in Seq(Frames)
    BY <2>1, FrameLemma DEF GenTypes
  <2>3. GenTypes'
    BY <2>1, <2>2 DEF GenTypes
  <2>4. Progress'
    BY <2>1 DEF Progress
  <2> QED
    BY <2>3, <2>4
<1>12. CASE Write \/ Finish
  <2>1. /\ phase = "generate" /\ phase' \in {"generate", "done"} /\ current' = Unset
        /\ drawn' = {} /\ stack = <<>>
        /\ UNCHANGED <<ws, settings, options, unread, found, roots, todo, stack>>
        /\ phase' = "done" => roots = {} /\ todo = {}
    BY <1>12 DEF Write, Finish, Idle, Progress
  <2>2. GenTypes'
    BY <2>1 DEF GenTypes, Phases
  <2>3. Progress'
    BY <2>1 DEF Progress
  <2> QED
    BY <2>2, <2>3
<1>13. CASE Fail
  <2>1. /\ phase' = "failed" /\ stack' = <<>>
        /\ UNCHANGED <<ws, settings, options, unread, found, roots, current, todo, drawn>>
    BY <1>13 DEF Fail
  <2>2. GenTypes'
    BY <2>1 DEF GenTypes, Phases
  <2>3. Progress'
    BY <2>1 DEF Progress
  <2> QED
    BY <2>2, <2>3
<1>14. CASE UNCHANGED vars
  BY <1>14 DEF vars, GenTypes, Progress
<1> QED
  BY <1>1, <1>2, <1>3, <1>4, <1>5, <1>6, <1>7, <1>8, <1>9, <1>10, <1>11, <1>12, <1>13, <1>14
  DEF Next, Proceed

(* A step that neither calls nor returns; and one that opens no call.      *)
LEMMA FewerCalls ==
  ASSUME GInv, stack' \in Seq(Frames), Len(stack') <= Len(stack), UNCHANGED <<ws, found>>,
         stack # <<>> => current' = current,
         \A k \in DOMAIN stack' :
           stack'[k].def = stack[k].def /\ stack'[k].calls \subseteq stack[k].calls
  PROVE  OpenCalls'
<1>1. stack \in Seq(Frames) /\ Len(stack) \in Nat /\ Len(stack') \in Nat
      /\ DOMAIN stack = 1..Len(stack) /\ DOMAIN stack' = 1..Len(stack') /\ StackDepth \in Nat
  BY DepthAssumption DEF GInv, GenTypes
<1>2. Len(stack') <= StackDepth
  BY <1>1 DEF GInv, OpenCalls
<1>3. ASSUME NEW k \in DOMAIN stack'
      PROVE  /\ \A c \in stack'[k].calls : c[2] \in Children(ws', found', stack'[k].def)
             /\ IF k = 1 THEN stack'[k].def = current'.def
                         ELSE stack'[k].def = Definition(found', stack'[k].def.name)
             /\ \A j \in 1..(k - 1) : stack'[k].def.name \in SubFsms(ws', found', stack'[j].def)
  <2>1. k \in DOMAIN stack /\ stack # <<>> /\ current' = current
    BY <1>1, <1>3
  <2>2. \A c \in stack'[k].calls : c[2] \in Children(ws, found, stack[k].def)
    BY <1>3, <2>1 DEF GInv, OpenCalls
  <2>3. IF k = 1 THEN stack[k].def = current.def
                 ELSE stack[k].def = Definition(found, stack[k].def.name)
    BY <2>1 DEF GInv, OpenCalls
  <2>4. \A j \in 1..(k - 1) : stack[k].def.name \in SubFsms(ws, found, stack[j].def)
    BY <2>1 DEF GInv, OpenCalls
  <2>5. \A j \in 1..(k - 1) : stack'[j].def = stack[j].def
    BY <1>1, <1>3
  <2> QED
    BY <1>3, <2>1, <2>2, <2>3, <2>4, <2>5
<1> QED
  BY <1>2, <1>3 DEF OpenCalls

(* A reference is followed into the machine it names.                      *)
LEMMA DescendStep ==
  ASSUME GInv, stack # <<>>, NEW call \in Top.calls, Descend(call)
  PROVE  OpenCalls'
<1> DEFINE n == call[2]
           sub == Definition(found, n)
<1>0. PICK L : L = Len(stack)
  OBVIOUS
<1>1. stack \in Seq(Frames) /\ found \in Seq(Definitions) /\ L \in Nat /\ L # 0
      /\ L \in DOMAIN stack /\ DOMAIN stack = 1..L /\ Top = stack[L] /\ Top \in Frames
  BY <1>0, FrameLemma DEF GInv, GenTypes, Top
<1>2. n \in Children(ws, found, Top.def) /\ n \in Names(found)
  BY <1>1 DEF GInv, OpenCalls, Children
<1>3. sub \in Definitions /\ sub.name = n
  BY <1>1, <1>2, NamesOfFound
<1>4. UNCHANGED <<ws, found, current>> /\ L < StackDepth
      /\ stack' = Append([stack EXCEPT ![L].calls = @ \ {call}], CallOf(sub))
  BY <1>0 DEF Descend, run
<1>5. CallOf(sub) \in Frames /\ CallOf(sub).def = sub
      /\ \A c \in CallOf(sub).calls : c[2] \in Children(ws, found, sub)
  BY <1>1, <1>3, CallOfTyped
<1> HIDE DEF sub, n
<1>6. /\ Len(stack') = L + 1 /\ DOMAIN stack' = 1..(L + 1) /\ stack'[L + 1] = CallOf(sub)
      /\ \A k \in 1..L : stack'[k].def = stack[k].def /\ stack'[k].calls \subseteq stack[k].calls
  BY <1>0, <1>1, <1>4, <1>5, PushLemma
<1>7. Len(stack') <= StackDepth
  <2>1. StackDepth \in Nat /\ L < StackDepth /\ L \in Nat
    BY <1>1, <1>4, DepthAssumption
  <2> QED
    BY <1>6, <2>1
<1>8. ASSUME NEW k \in 1..L
      PROVE  /\ \A c \in stack'[k].calls : c[2] \in Children(ws', found', stack'[k].def)
             /\ IF k = 1 THEN stack'[k].def = current'.def
                         ELSE stack'[k].def = Definition(found', stack'[k].def.name)
             /\ \A j \in 1..(k - 1) : stack'[k].def.name \in SubFsms(ws', found', stack'[j].def)
  <2>1. \A j \in 1..(k - 1) : j \in 1..L
    BY <1>1, <1>8
  <2> QED
    BY <1>1, <1>4, <1>6, <1>8, <2>1 DEF GInv, OpenCalls
<1>9. ASSUME NEW j \in 1..L PROVE n \in SubFsms(ws, found, stack[j].def)
  <2>1. CASE j = L
    BY <1>1, <1>2, <2>1, SubFsmsClosed
  <2>2. CASE j # L
    <3>1. j \in 1..(L - 1) /\ L # 1
      BY <1>1, <1>9, <2>2
    <3>2. Top.def.name \in SubFsms(ws, found, stack[j].def)
          /\ Top.def = Definition(found, Top.def.name)
      BY <1>1, <3>1 DEF GInv, OpenCalls
    <3> QED
      BY <1>2, <3>2, SubFsmsClosed
  <2> QED
    BY <2>1, <2>2
<1>10. /\ \A c \in stack'[L + 1].calls : c[2] \in Children(ws', found', stack'[L + 1].def)
       /\ stack'[L + 1].def = Definition(found', stack'[L + 1].def.name)
       /\ \A j \in 1..L : stack'[L + 1].def.name \in SubFsms(ws', found', stack'[j].def)
  BY <1>3, <1>4, <1>5, <1>6, <1>9 DEF sub
<1>11. ASSUME NEW k \in 1..(L + 1)
       PROVE  /\ \A c \in stack'[k].calls : c[2] \in Children(ws', found', stack'[k].def)
              /\ IF k = 1 THEN stack'[k].def = current'.def
                          ELSE stack'[k].def = Definition(found', stack'[k].def.name)
              /\ \A j \in 1..(k - 1) : stack'[k].def.name \in SubFsms(ws', found', stack'[j].def)
  <2>1. CASE k \in 1..L
    BY <1>8, <2>1
  <2>2. CASE k = L + 1
    <3>1. k # 1 /\ 1..(k - 1) = 1..L
      BY <1>1, <2>2
    <3> QED
      BY <1>10, <2>2, <3>1
  <2> QED
    BY <1>1, <2>1, <2>2
<1> QED
  BY <1>6, <1>7, <1>11 DEF OpenCalls

LEMMA OpenCallsStep == GInv /\ [Next]_vars => OpenCalls'
<1> SUFFICES ASSUME GInv, [Next]_vars PROVE OpenCalls'
  OBVIOUS
<1> USE DEF run, cleaning, drawing
<1>1. stack \in Seq(Frames) /\ found \in Seq(Definitions) /\ StackDepth \in Nat
      /\ 0 <= StackDepth /\ 1 <= StackDepth
  BY DepthAssumption DEF GInv, GenTypes
<1>2. ASSUME stack' = <<>> PROVE OpenCalls'
  BY <1>1, <1>2 DEF OpenCalls
<1>3. ASSUME UNCHANGED <<ws, found, stack, current>> PROVE OpenCalls'
  BY <1>3 DEF GInv, OpenCalls
<1>4. CASE ReadConfig \/ NothingFound \/ StartClean \/ FindRoots \/ Finish \/ UNCHANGED vars
  BY <1>3, <1>4 DEF ReadConfig, NothingFound, StartClean, FindRoots, Finish, vars
<1>5. ASSUME NEW p \in unclean, CleanFile(p) PROVE OpenCalls'
  BY <1>3, <1>5 DEF CleanFile
<1>6. CASE Overflow \/ Fail
  BY <1>2, <1>6 DEF Overflow, Fail
<1>7. CASE \/ \E f \in unread : ScanFile(f)
           \/ \E r \in roots : NextRoot(r)
           \/ \E d \in todo : NextDiagram(d)
           \/ Write
  <2>1. stack = <<>>
    BY <1>7 DEF ScanFile, NextRoot, NextDiagram, Write, Idle, GInv, Progress
  <2>2. stack' = <<>>
    BY <1>7, <2>1 DEF ScanFile, NextRoot, NextDiagram, Write
  <2> QED
    BY <1>2, <2>2
<1>8. CASE phase = "generate" /\ StartDrawing
  <2>1. UNCHANGED <<ws, found, current>> /\ stack' \in {<<>>, <<CallOf(current.def)>>}
    BY <1>8 DEF StartDrawing
  <2>2. CASE stack' = <<>>
    BY <1>2, <2>2
  <2>3. CASE stack' = <<CallOf(current.def)>>
    <3>1. current.def \in Definitions
      BY <1>8 DEF StartDrawing, GInv, GenTypes, Diagrams
    <3>2. CallOf(current.def).def = current.def
          /\ \A c \in CallOf(current.def).calls : c[2] \in Children(ws, found, current.def)
      BY <1>1, <3>1, CallOfTyped
    <3>3. Len(stack') = 1 /\ DOMAIN stack' = {1} /\ stack'[1] = CallOf(current.def) /\ 1..(1 - 1) = {}
      BY <2>3
    <3> QED
      BY <1>1, <2>1, <3>2, <3>3 DEF OpenCalls
  <2> QED
    BY <2>1, <2>2, <2>3
<1>9. CASE stack # <<>> /\ \E call \in Top.calls : Descend(call)
  BY <1>9, DescendStep
<1>10. CASE Return
  <2>1. stack # <<>> /\ stack' = Front(stack) /\ UNCHANGED <<ws, found, current>>
    BY <1>10 DEF Return
  <2>2. stack' \in Seq(Frames)
    BY <1>1, <2>1, FrameLemma
  <2>3. Len(stack) \in Nat /\ Len(stack) # 0
    BY <1>1, <2>1, FrameLemma
  <2>4. Len(stack') = Len(stack) - 1 /\ \A k \in DOMAIN stack' : stack'[k] = stack[k]
    BY <1>1, <2>1, FrameLemma
  <2> QED
    BY <2>1, <2>2, <2>3, <2>4, FewerCalls
<1> QED
  BY <1>4, <1>5, <1>6, <1>7, <1>8, <1>9, <1>10 DEF Next, Proceed

LEMMA GStep == GInv /\ [Next]_vars => GInv'
BY TypesStep, OpenCallsStep DEF GInv

LEMMA GenInvariant == Spec => []GInv
BY GenInit, GStep, PTL DEF Spec

-----------------------------------------------------------------------------
(* While the clean-up runs, an old diagram is either still to be visited   *)
(* or one that could not be removed; afterwards what else lies under the   *)
(* output has been drawn by this run.                                      *)
Cleaned ==
  /\ phase = "clean" => DOMAIN disk \ (OtherFiles \cup stuck) \subseteq unclean
  /\ (phase = "generate" \/ (phase = "done" /\ found # <<>>)) =>
       \A p \in DOMAIN disk \ (OtherFiles \cup stuck) : disk[p] # {}

FilesInv == FilesSurvive /\ Cleaned

LEMMA FilesInit == Init => FilesInv
BY DEF Init, FilesInv, FilesSurvive, Cleaned

LEMMA FilesStep == GInv /\ FilesInv /\ [Next]_vars => FilesInv'
<1> SUFFICES ASSUME GInv, FilesInv, [Next]_vars PROVE FilesInv'
  OBVIOUS
<1> USE DEF run, cleaning, drawing
<1>1. ASSUME UNCHANGED <<phase, found, unread, disk, stuck, unclean>> PROVE FilesInv'
  BY <1>1 DEF FilesInv, FilesSurvive, Cleaned
<1>2. CASE \/ \E r \in roots : NextRoot(r)
           \/ \E d \in todo : NextDiagram(d)
           \/ StartDrawing \/ Return \/ UNCHANGED vars
  BY <1>1, <1>2 DEF NextRoot, NextDiagram, StartDrawing, Return, vars
<1>3. CASE stack # <<>> /\ \E call \in Top.calls : Descend(call)
  BY <1>1, <1>3 DEF Descend
<1>4. CASE ReadConfig \/ NothingFound \/ StartClean
  BY <1>4 DEF ReadConfig, NothingFound, StartClean, FilesInv, FilesSurvive, Cleaned
<1>5. ASSUME NEW f \in unread, ScanFile(f) PROVE FilesInv'
  <2>1. phase = "scan" /\ phase' = "scan" /\ UNCHANGED <<disk, stuck, unclean>>
    BY <1>5 DEF ScanFile
  <2> QED
    BY <2>1 DEF FilesInv, FilesSurvive, Cleaned
<1>6. ASSUME NEW p \in unclean, CleanFile(p) PROVE FilesInv'
  <2>1. phase = "clean" /\ unread = {} /\ unclean' = unclean \ {p}
        /\ UNCHANGED <<phase, unread>>
    BY <1>6 DEF CleanFile, GInv, Progress
  <2>2. CASE p \notin OtherFiles /\ disk' = Restrict(disk, DOMAIN disk \ {p}) /\ UNCHANGED stuck
    <3>1. DOMAIN disk' = DOMAIN disk \ {p} /\ \A q \in DOMAIN disk \ {p} : disk'[q] = disk[q]
      BY <2>2 DEF Restrict
    <3> QED
      BY <2>1, <2>2, <3>1 DEF FilesInv, FilesSurvive, Cleaned
  <2>3. CASE p \notin OtherFiles /\ stuck' = stuck \cup {p} /\ UNCHANGED disk
    BY <2>1, <2>3 DEF FilesInv, FilesSurvive, Cleaned
  <2>4. CASE p \in OtherFiles /\ UNCHANGED <<disk, stuck>>
    BY <2>1, <2>4 DEF FilesInv, FilesSurvive, Cleaned
  <2> QED
    BY <1>6, <2>2, <2>3, <2>4 DEF CleanFile
<1>7. CASE FindRoots \/ Finish
  BY <1>7 DEF FindRoots, Finish, Idle, GInv, Progress, FilesInv, FilesSurvive, Cleaned
<1>8. CASE Overflow \/ Fail
  <2>1. phase' \in {"failed", "crashed"} /\ UNCHANGED <<found, unread, disk, stuck, unclean>>
    BY <1>8 DEF Overflow, Fail
  <2> QED
    BY <2>1 DEF FilesInv, FilesSurvive, Cleaned
<1>9. CASE Write
  <2>1. phase = "generate" /\ UNCHANGED <<phase, found, unread, stuck, unclean>>
        /\ unread = {} /\ drawn # {} /\ current # Unset
    BY <1>9 DEF Write, GInv, Progress
  <2>2. current.path \in DiagramPaths
    BY <2>1 DEF GInv, GenTypes, Diagrams
  <2>3. current.path \notin OtherFiles
    BY <2>2, OutputAssumption
  <2>4. /\ DOMAIN disk' = DOMAIN disk \cup {current.path}
        /\ \A p \in DOMAIN disk' : disk'[p] = IF p = current.path THEN drawn ELSE disk[p]
    BY <1>9 DEF Write
  <2> QED
    BY <2>1, <2>3, <2>4 DEF FilesInv, FilesSurvive, Cleaned
<1> QED
  BY <1>2, <1>3, <1>4, <1>5, <1>6, <1>7, <1>8, <1>9 DEF Next, Proceed

(* A run, complete or not, whatever fails in it, leaves the files that are *)
(* not diagrams as they were, and the diagrams of the last run in place    *)
(* until it has seen every source.                                         *)
THEOREM FilesLeftAlone == Spec => []FilesSurvive
<1>1. FilesInv => FilesSurvive
  BY DEF FilesInv
<1> QED
  BY <1>1, GenInit, GStep, FilesInit, FilesStep, PTL DEF Spec

(* After a complete run every diagram under the output is of this run,     *)
(* except those whose removal failed and was ignored.                      *)
THEOREM NoOldDiagram == Spec => []NothingStale
<1>1. FilesInv => NothingStale
  BY DEF FilesInv, Cleaned, NothingStale
<1> QED
  BY <1>1, GenInit, GStep, FilesInit, FilesStep, PTL DEF Spec

-----------------------------------------------------------------------------
(* What is drawn is a root, or the definition some name stands for.        *)
RootOrNamed(def) ==
  \/ \E r \in Roots(ws, found) : def = found[r]
  \/ \E n \in Names(found) : def = Definition(found, n)

Origins ==
  /\ current # Unset => RootOrNamed(current.def)
  /\ \A d \in todo : RootOrNamed(d.def)

(* The stack holds one call for every machine of the workspace.            *)
DeepEnough == Cardinality(Names(found)) <= StackDepth

CrashInv == Origins /\ (phase = "crashed" /\ DeepEnough => ~Acyclic)

LEMMA CrashInit == Init => CrashInv
BY DEF Init, CrashInv, Origins

(* A full stack and one more call are more calls than there are machines:  *)
(* two of them are of one machine, which is its own sub-machine then.      *)
LEMMA OverflowCycle ==
  ASSUME GInv, Origins, Overflow, DeepEnough
  PROVE  ~Acyclic
<1>0. PICK L : L = Len(stack)
  OBVIOUS
<1>1. stack \in Seq(Frames) /\ found \in Seq(Definitions) /\ L \in Nat /\ L # 0
      /\ L \in DOMAIN stack /\ DOMAIN stack = 1..L /\ Top = stack[L] /\ stack # <<>>
  BY <1>0, FrameLemma DEF GInv, GenTypes, Top, Overflow
<1>2. StackDepth \in Nat /\ L = StackDepth
  BY <1>0, <1>1, DepthAssumption DEF GInv, OpenCalls, Overflow
<1>3. PICK next : next \in Children(ws, found, Top.def)
  BY <1>1 DEF Overflow, GInv, OpenCalls
<1>4. next \in Names(found) /\ \A k \in 1..L : next \in SubFsms(ws, found, stack[k].def)
  <2>1. next \in SubFsms(ws, found, Top.def) /\ next \in Names(found)
    BY <1>3, SubFsmsClosed
  <2>2. ASSUME NEW k \in 1..L, k # L PROVE next \in SubFsms(ws, found, stack[k].def)
    <3>1. k \in 1..(L - 1) /\ L # 1
      BY <1>1, <2>2
    <3>2. Top.def.name \in SubFsms(ws, found, stack[k].def)
          /\ Top.def = Definition(found, Top.def.name)
      BY <1>1, <3>1 DEF GInv, OpenCalls
    <3> QED
      BY <1>3, <3>2, SubFsmsClosed
  <2> QED
    BY <1>1, <2>1, <2>2
<1>5. phase = "generate" /\ current # Unset
  BY <1>1 DEF GInv, Progress
<1>6. ASSUME NEW k \in 1..L
      PROVE  /\ RootOrNamed(stack[k].def) /\ stack[k].def.name \in Names(found)
             /\ \A j \in 1..(k - 1) : stack[k].def.name \in SubFsms(ws, found, stack[j].def)
  <2>1. CASE k = 1
    <3>1. RootOrNamed(stack[k].def)
      BY <1>1, <1>5, <2>1 DEF GInv, OpenCalls, Origins
    <3>2. stack[k].def.name \in Names(found)
      BY <1>1, <3>1, NamesOfFound DEF RootOrNamed, Roots
    <3> QED
      BY <2>1, <3>1, <3>2
  <2>2. CASE k # 1
    <3>1. /\ stack[k].def = Definition(found, stack[k].def.name)
          /\ \A j \in 1..(k - 1) : stack[k].def.name \in SubFsms(ws, found, stack[j].def)
      BY <1>1, <2>2 DEF GInv, OpenCalls
    <3>2. 1 \in 1..(k - 1)
      BY <1>1, <2>2
    <3>3. stack[k].def.name \in Names(found)
      BY <3>1, <3>2, SubFsmsClosed
    <3> QED
      BY <3>1, <3>3 DEF RootOrNamed
  <2> QED
    BY <2>1, <2>2
<1> DEFINE nameOf == [k \in 1..(L + 1) |-> IF k = L + 1 THEN next ELSE stack[k].def.name]
<1>7. nameOf \in [1..(L + 1) -> Names(found)]
  <2>1. \A k \in 1..(L + 1) : k = L + 1 \/ k \in 1..L
    BY <1>1
  <2> QED
    BY <1>4, <1>6, <2>1
<1>8. ASSUME NEW i \in 1..(L + 1), NEW j \in 1..(L + 1), i < j
      PROVE  i \in 1..L /\ nameOf[i] = stack[i].def.name
             /\ nameOf[j] \in SubFsms(ws, found, stack[i].def)
  <2>1. i \in 1..L /\ i # L + 1
    BY <1>1, <1>8
  <2>2. CASE j = L + 1
    BY <1>4, <2>1, <2>2
  <2>3. CASE j # L + 1
    <3>1. j \in 1..L /\ i \in 1..(j - 1)
      BY <1>1, <1>8, <2>3
    <3> QED
      BY <1>6, <2>1, <2>3, <3>1
  <2> QED
    BY <2>2, <2>3
<1>9. \E i, j \in 1..(L + 1) : i # j /\ nameOf[i] = nameOf[j]
  <2>1. IsFiniteSet(Names(found)) /\ Cardinality(Names(found)) \in Nat
    BY <1>1, NamesFinite, FS_CardinalityType
  <2>2. IsFiniteSet(1..(L + 1)) /\ Cardinality(1..(L + 1)) = L + 1
    BY <1>1, FS_Interval
  <2>3. Cardinality(Names(found)) < Cardinality(1..(L + 1))
    BY <1>1, <1>2, <2>1, <2>2 DEF DeepEnough
  <2> HIDE DEF nameOf
  <2> QED
    BY <1>7, <2>1, <2>2, <2>3, FS_PigeonHole
<1>10. PICK i \in 1..(L + 1), j \in 1..(L + 1) : i < j /\ nameOf[i] = nameOf[j]
  <2> HIDE DEF nameOf
  <2>1. PICK x \in 1..(L + 1), y \in 1..(L + 1) : x # y /\ nameOf[x] = nameOf[y]
    BY <1>9
  <2>2. x < y \/ y < x
    BY <1>1, <2>1
  <2> QED
    BY <2>1, <2>2
<1> HIDE DEF nameOf
<1>11. /\ stack[i].def.name \in SubFsms(ws, found, stack[i].def)
       /\ stack[i].def.name \in Names(found) /\ RootOrNamed(stack[i].def)
  BY <1>6, <1>8, <1>10
<1>12. CASE \E r \in Roots(ws, found) : stack[i].def = found[r]
  BY <1>1, <1>11, <1>12, NoRootBelow DEF Roots
<1>13. CASE \E n \in Names(found) : stack[i].def = Definition(found, n)
  BY <1>1, <1>11, <1>13, NamesOfFound DEF Acyclic
<1> QED
  BY <1>11, <1>12, <1>13 DEF RootOrNamed

LEMMA CrashStep == GInv /\ CrashInv /\ [Next]_vars => CrashInv'
<1> SUFFICES ASSUME GInv, CrashInv, [Next]_vars PROVE CrashInv'
  OBVIOUS
<1> USE DEF run, cleaning, drawing
<1>1. ASSUME UNCHANGED <<ws, found>>, phase' # "crashed" \/ phase = "crashed",
             current' \in {current, Unset}, todo' = todo
      PROVE  CrashInv'
  BY <1>1 DEF CrashInv, Origins, RootOrNamed, DeepEnough, Acyclic
<1>2. CASE ReadConfig \/ NothingFound \/ StartClean \/ FindRoots \/ Write \/ Finish \/ Return
  BY <1>1, <1>2
  DEF ReadConfig, NothingFound, StartClean, FindRoots, Write, Finish, Idle, Return, GInv, Progress
<1>3. CASE StartDrawing \/ Fail \/ UNCHANGED vars
  BY <1>1, <1>3 DEF StartDrawing, Fail, vars
<1>4. ASSUME NEW f \in unread, ScanFile(f) PROVE CrashInv'
  BY <1>4 DEF ScanFile, CrashInv, Origins, GInv, Progress
<1>5. ASSUME NEW p \in unclean, CleanFile(p) PROVE CrashInv'
  BY <1>1, <1>5 DEF CleanFile
<1>6. ASSUME NEW r \in roots, NextRoot(r) PROVE CrashInv'
  <2>1. /\ phase = "generate" /\ phase' = "generate" /\ UNCHANGED <<ws, found>>
        /\ current' = Own(r) /\ todo' = Breakdowns(found[r])
    BY <1>6 DEF NextRoot, Idle, Own
  <2>2. r \in Roots(ws, found) /\ r \in DOMAIN found /\ found \in Seq(Definitions)
    BY DEF GInv, GenTypes, Roots
  <2>3. RootOrNamed(Own(r).def)
    BY <2>2, OwnTyped DEF RootOrNamed
  <2>4. \A d \in Breakdowns(found[r]) : RootOrNamed(d.def)
    BY <2>1, <2>2, BreakdownTyped, SubFsmsClosed DEF RootOrNamed
  <2> QED
    BY <2>1, <2>3, <2>4 DEF CrashInv, Origins, RootOrNamed
<1>7. ASSUME NEW d \in todo, NextDiagram(d) PROVE CrashInv'
  BY <1>7 DEF NextDiagram, CrashInv, Origins, RootOrNamed, GInv, Progress
<1>8. CASE stack # <<>> /\ \E call \in Top.calls : Descend(call)
  BY <1>1, <1>8 DEF Descend
<1>9. CASE Overflow
  <2>1. UNCHANGED <<ws, found, current, todo>>
    BY <1>9 DEF Overflow
  <2>2. DeepEnough => ~Acyclic
    BY <1>9, OverflowCycle DEF CrashInv
  <2> QED
    BY <2>1, <2>2 DEF CrashInv, Origins, RootOrNamed, DeepEnough, Acyclic
<1> QED
  BY <1>2, <1>3, <1>4, <1>5, <1>6, <1>7, <1>8, <1>9 DEF Next, Proceed

(* Drawing overflows the stack only when a machine contains itself: with   *)
(* no such machine the calls open at once are of different machines, and a *)
(* stack with room for all the machines found never fills up.              *)
THEOREM OverflowOnlyOnCycle == Spec => [](DeepEnough => CrashOnlyOnCycle)
<1>1. CrashInv => (DeepEnough => CrashOnlyOnCycle)
  BY DEF CrashInv, CrashOnlyOnCycle
<1> QED
  BY <1>1, GenInit, GStep, CrashInit, CrashStep, PTL DEF Spec

-----------------------------------------------------------------------------
(* The diagrams of a root, the roots that have been started, and the       *)
(* diagrams of the last of them that are not written yet.                  *)
DiagramsOf(i) == {Own(i)} \cup Breakdowns(found[i])
Started == Roots(ws, found) \ roots
Pending == todo \cup ({current} \ {Unset})

(* Roots are taken in the order in which they were found.                  *)
OrderInv ==
  phase \in {"generate", "done"} =>
    /\ \A i \in Started, j \in roots : i < j
    /\ \A d \in Pending :
         \E j \in Started : d \in DiagramsOf(j) /\ \A i \in Started : i <= j

(* A nested diagram holds the machines its machines refer to, except for   *)
(* the references that an open call has still to follow.                   *)
DrawInv ==
  phase = "generate" /\ drawn # {} =>
    /\ current.def \in drawn
    /\ current.nested =>
         \A e \in drawn : \A n \in Children(ws, found, e) :
           \/ Definition(found, n) \in drawn
           \/ \E k \in DOMAIN stack : stack[k].def = e /\ \E c \in stack[k].calls : c[2] = n

(* The last definition of a name is a root's to draw, and is not lost.     *)
LastInv ==
  phase \in {"generate", "done"} =>
    \A i \in Started :
      (\A j \in DOMAIN found : found[j].name = found[i].name => j <= i) =>
        \/ current = Own(i)
        \/ Own(i).path \in DOMAIN disk /\ found[i] \in disk[Own(i).path]

Written(d) ==
  /\ d.path \in DOMAIN disk /\ d.def \in disk[d.path]
  /\ d.nested => \A n \in SubFsms(ws, found, d.def) : Definition(found, n) \in disk[d.path]

(* With unique names no diagram of a root is written over by another.      *)
KeptInv ==
  phase \in {"generate", "done"} /\ UniqueNames =>
    \A i \in Started : \A d \in DiagramsOf(i) : d \in Pending \/ Written(d)

(* What a step of the run is to the diagrams of the roots.                 *)
LEMMA RootSteps ==
  ASSUME GInv, [Next]_vars
  PROVE  \/ phase' \notin {"generate", "done"}
         \/ Started' = {} /\ Pending' = {}
         \/ phase \in {"generate", "done"}
            /\ UNCHANGED <<ws, found, options, roots, current, todo, disk>>
         \/ \E r \in roots : NextRoot(r)
         \/ \E d \in todo : NextDiagram(d)
         \/ Write
<1> USE DEF run, cleaning, drawing
<1>1. CASE ReadConfig \/ StartClean \/ Overflow \/ Fail
  BY <1>1 DEF ReadConfig, StartClean, Overflow, Fail
<1>2. CASE (\E f \in unread : ScanFile(f)) \/ (\E p \in unclean : CleanFile(p))
  BY <1>2 DEF ScanFile, CleanFile
<1>3. CASE NothingFound
  <2>1. found' = <<>> /\ current' = Unset /\ todo' = {}
    BY <1>3 DEF NothingFound, GInv, Progress
  <2>2. Roots(ws', found') = {}
    BY <2>1 DEF Roots
  <2> QED
    BY <2>1, <2>2 DEF Started, Pending
<1>4. CASE FindRoots
  BY <1>4 DEF FindRoots, Started, Pending, GInv, Progress
<1>5. CASE stack # <<>> /\ \E call \in Top.calls : Descend(call)
  BY <1>5 DEF Descend, GInv, Progress
<1>6. CASE (phase = "generate" /\ StartDrawing) \/ Return
  BY <1>6 DEF StartDrawing, Return, GInv, Progress
<1>7. CASE Finish \/ UNCHANGED vars
  BY <1>7 DEF Finish, Idle, vars
<1> QED
  BY <1>1, <1>2, <1>3, <1>4, <1>5, <1>6, <1>7 DEF Next, Proceed

LEMMA SameDiagrams ==
  ASSUME UNCHANGED <<ws, found, options>>, NEW i
  PROVE  /\ DiagramsOf(i)' = DiagramsOf(i) /\ Own(i)' = Own(i)
         /\ Roots(ws, found)' = Roots(ws, found)
BY DEF DiagramsOf, Own, Breakdowns, Breakdown, Diagram

LEMMA StartedTyped ==
  ASSUME GInv
  PROVE  /\ Started \subseteq DOMAIN found /\ roots \subseteq DOMAIN found
         /\ DOMAIN found \subseteq Nat /\ found \in Seq(Definitions)
<1>1. found \in Seq(Definitions) /\ roots \subseteq Roots(ws, found)
  BY DEF GInv, GenTypes
<1>2. DOMAIN found \subseteq Nat
  <2>1. DOMAIN found = 1..Len(found) /\ Len(found) \in Nat
    BY <1>1
  <2> QED
    BY <2>1
<1>3. Roots(ws, found) \subseteq DOMAIN found
  BY DEF Roots
<1> QED
  BY <1>1, <1>2, <1>3 DEF Started

(* A root is started.                                                      *)
LEMMA NextRootEffect ==
  ASSUME GInv, NEW r \in roots, NextRoot(r)
  PROVE  /\ phase = "generate" /\ UNCHANGED <<ws, found, options, phase, disk>>
         /\ Pending = {} /\ Pending' = DiagramsOf(r) /\ current' = Own(r) /\ current = Unset
         /\ r \in DOMAIN found /\ Started' = Started \cup {r} /\ roots' = roots \ {r}
<1> USE DEF run, cleaning, drawing
<1>1. /\ phase = "generate" /\ current = Unset /\ todo = {} /\ roots' = roots \ {r}
      /\ current' = Own(r) /\ todo' = Breakdowns(found[r])
      /\ UNCHANGED <<ws, found, options, phase, disk>>
  BY DEF NextRoot, Idle, Own
<1>2. r \in Roots(ws, found) /\ r \in DOMAIN found /\ found \in Seq(Definitions)
  BY DEF GInv, GenTypes, Roots
<1>3. Own(r) # Unset /\ Unset \notin Breakdowns(found[r])
  BY <1>1, <1>2, OwnTyped, BreakdownTyped, UnsetAssumption
<1>4. Pending' = DiagramsOf(r)
  BY <1>1, <1>3 DEF Pending, DiagramsOf
<1>5. Started' = Started \cup {r}
  BY <1>1, <1>2 DEF Started
<1> QED
  BY <1>1, <1>2, <1>4, <1>5 DEF Pending

(* A diagram of its breakdown is taken.                                    *)
LEMMA NextDiagramEffect ==
  ASSUME GInv, NEW d \in todo, NextDiagram(d)
  PROVE  /\ phase = "generate" /\ UNCHANGED <<ws, found, options, phase, disk, roots>>
         /\ Pending' = Pending /\ current' = d /\ current = Unset
<1>1. d # Unset
  BY UnsetAssumption DEF GInv, GenTypes
<1> QED
  BY <1>1 DEF NextDiagram, Pending, run, cleaning, drawing

(* A diagram is written, with all that was drawn.                          *)
LEMMA WriteEffect ==
  ASSUME GInv, Write
  PROVE  /\ phase = "generate" /\ UNCHANGED <<ws, found, options, phase, roots, todo>>
         /\ current \in Pending /\ Pending' = Pending \ ({current} \ todo)
         /\ stack = <<>> /\ drawn # {} /\ current' = Unset
         /\ DOMAIN disk' = DOMAIN disk \cup {current.path} /\ disk'[current.path] = drawn
         /\ \A p : p # current.path /\ p \in DOMAIN disk => disk'[p] = disk[p]
<1>1. current # Unset
  BY DEF Write, GInv, Progress
<1>2. Unset \notin todo
  BY UnsetAssumption DEF GInv, GenTypes
<1> QED
  BY <1>1, <1>2 DEF Write, Pending, run, cleaning

LEMMA OrderStep == GInv /\ OrderInv /\ [Next]_vars => OrderInv'
<1> SUFFICES ASSUME GInv, OrderInv, [Next]_vars PROVE OrderInv'
  OBVIOUS
<1>1. CASE phase' \notin {"generate", "done"} \/ (Started' = {} /\ Pending' = {})
  BY <1>1 DEF OrderInv
<1>2. CASE phase \in {"generate", "done"}
           /\ UNCHANGED <<ws, found, options, roots, current, todo, disk>>
  BY <1>2, SameDiagrams DEF OrderInv, Started, Pending
<1>3. ASSUME NEW r \in roots, NextRoot(r) PROVE OrderInv'
  <2>1. /\ phase = "generate" /\ UNCHANGED <<ws, found, options>> /\ Pending' = DiagramsOf(r)
        /\ Started' = Started \cup {r} /\ roots' = roots \ {r}
    BY <1>3, NextRootEffect
  <2>2. \A j \in roots : r <= j
    BY <1>3 DEF NextRoot
  <2>3. Started \subseteq Nat /\ roots \subseteq Nat
    BY StartedTyped
  <2>4. \A i \in Started, j \in roots : i < j
    BY <2>1 DEF OrderInv
  <2>5. \A i \in Started', j \in roots' : i < j
    BY <2>1, <2>2, <2>3, <2>4
  <2>6. \A i \in Started' : i <= r
    BY <2>1, <2>3, <2>4
  <2>7. DiagramsOf(r)' = DiagramsOf(r)
    BY <2>1, SameDiagrams
  <2> QED
    BY <2>1, <2>5, <2>6, <2>7 DEF OrderInv
<1>4. ASSUME NEW d \in todo, NextDiagram(d) PROVE OrderInv'
  BY <1>4, NextDiagramEffect, SameDiagrams DEF OrderInv, Started
<1>5. CASE Write
  BY <1>5, WriteEffect, SameDiagrams DEF OrderInv, Started
<1> QED
  BY <1>1, <1>2, <1>3, <1>4, <1>5, RootSteps

LEMMA DrawStep == GInv /\ DrawInv /\ [Next]_vars => DrawInv'
<1> SUFFICES ASSUME GInv, DrawInv, [Next]_vars, phase' = "generate", drawn' # {} PROVE DrawInv'
  BY DEF DrawInv
<1> USE DEF run, cleaning, drawing
<1>1. CASE ReadConfig \/ NothingFound \/ StartClean \/ Overflow \/ Write \/ Finish \/ Fail
  BY <1>1 DEF ReadConfig, NothingFound, StartClean, Overflow, Write, Finish, Fail
<1>2. CASE \/ \E f \in unread : ScanFile(f)
           \/ \E p \in unclean : CleanFile(p)
           \/ FindRoots
           \/ \E r \in roots : NextRoot(r)
           \/ \E d \in todo : NextDiagram(d)
  BY <1>2 DEF ScanFile, CleanFile, FindRoots, NextRoot, NextDiagram, Idle, GInv, Progress
<1>3. CASE UNCHANGED vars
  BY <1>3 DEF vars, DrawInv
<1>4. CASE phase = "generate" /\ StartDrawing
  <2>1. /\ drawn' = {current.def} /\ UNCHANGED <<ws, found, current>> /\ current # Unset
        /\ stack' = IF current.nested THEN <<CallOf(current.def)>> ELSE <<>>
    BY <1>4 DEF StartDrawing
  <2>2. current.def \in Definitions /\ found \in Seq(Definitions)
    BY <2>1 DEF GInv, GenTypes, Diagrams
  <2>3. CallOf(current.def).def = current.def
        /\ \A n \in Children(ws, found, current.def) :
             \E c \in CallOf(current.def).calls : c[2] = n
    BY <2>2, CallOfTyped
  <2>4. current.nested => 1 \in DOMAIN stack' /\ stack'[1] = CallOf(current.def)
    BY <2>1
  <2> QED
    BY <2>1, <2>3, <2>4 DEF DrawInv
<1>5. ASSUME stack # <<>>, NEW call \in Top.calls, Descend(call) PROVE DrawInv'
  <2> DEFINE n == call[2]
             sub == Definition(found, n)
  <2>0. PICK L : L = Len(stack)
    OBVIOUS
  <2>1. stack \in Seq(Frames) /\ found \in Seq(Definitions) /\ L \in Nat /\ L # 0
        /\ L \in DOMAIN stack /\ DOMAIN stack = 1..L /\ Top = stack[L] /\ Top \in Frames
    BY <1>5, <2>0, FrameLemma DEF GInv, GenTypes, Top
  <2>2. n \in Names(found)
    BY <1>5, <2>1 DEF GInv, OpenCalls, Children
  <2>3. sub \in Definitions
    BY <2>1, <2>2, NamesOfFound
  <2>4. UNCHANGED <<ws, found, current, phase>> /\ drawn' = drawn \cup {sub}
        /\ stack' = Append([stack EXCEPT ![L].calls = @ \ {call}], CallOf(sub))
    BY <1>5, <2>0 DEF Descend
  <2>5. CallOf(sub) \in Frames /\ CallOf(sub).def = sub
        /\ \A m \in Children(ws, found, sub) : \E c \in CallOf(sub).calls : c[2] = m
    BY <2>1, <2>3, CallOfTyped
  <2>6. phase = "generate" /\ drawn # {}
    BY <1>5 DEF GInv, Progress
  <2> HIDE DEF sub, n
  <2>7. /\ DOMAIN stack' = 1..(L + 1) /\ stack'[L + 1] = CallOf(sub)
        /\ \A k \in 1..L : stack'[k].def = stack[k].def
        /\ \A k \in 1..L : \A c \in stack[k].calls : c \in stack'[k].calls \/ c = call
    <3>1. /\ DOMAIN stack' = 1..(L + 1) /\ stack'[L + 1] = CallOf(sub)
          /\ \A k \in 1..L : stack'[k].def = stack[k].def
      BY <1>5, <2>0, <2>1, <2>4, <2>5, PushLemma
    <3>2. \A k \in 1..L : \A c \in stack[k].calls : c \in stack'[k].calls \/ c = call
      BY <1>5, <2>0, <2>1, <2>4, <2>5, PushLemma
    <3> QED
      BY <3>1, <3>2
  <2>8. ASSUME current.nested, NEW e \in drawn', NEW m \in Children(ws, found, e)
        PROVE  \/ Definition(found, m) \in drawn'
               \/ \E k \in DOMAIN stack' : stack'[k].def = e /\ \E c \in stack'[k].calls : c[2] = m
    <3>1. CASE e = sub
      <4>1. L + 1 \in DOMAIN stack'
        BY <2>1, <2>7
      <4> QED
        BY <2>5, <2>7, <2>8, <3>1, <4>1
    <3>2. CASE e \in drawn /\ Definition(found, m) \in drawn
      BY <2>4, <3>2
    <3>3. CASE e \in drawn /\ \E k \in DOMAIN stack :
                 stack[k].def = e /\ \E c \in stack[k].calls : c[2] = m
      <4>0. PICK k \in 1..L : stack[k].def = e /\ \E c \in stack[k].calls : c[2] = m
        BY <2>1, <3>3
      <4>1. PICK c \in stack[k].calls : stack[k].def = e /\ c[2] = m
        BY <4>0
      <4>2. k \in DOMAIN stack' /\ stack'[k].def = e
        BY <2>1, <2>7, <4>1
      <4>3. CASE c = call
        BY <2>4, <4>1, <4>3 DEF sub, n
      <4>4. CASE c \in stack'[k].calls
        BY <4>1, <4>2, <4>4
      <4> QED
        BY <2>7, <4>3, <4>4
    <3> QED
      BY <2>4, <2>6, <2>8, <3>1, <3>2, <3>3 DEF DrawInv
  <2>9. current.def \in drawn'
    BY <2>4, <2>6 DEF DrawInv
  <2> QED
    BY <2>4, <2>8, <2>9 DEF DrawInv
<1>6. CASE Return
  <2>1. stack # <<>> /\ Top.calls = {} /\ stack' = Front(stack)
        /\ UNCHANGED <<ws, found, current, drawn, phase>>
    BY <1>6 DEF Return
  <2>2. stack \in Seq(Frames)
    BY DEF GInv, GenTypes
  <2>3. Len(stack) \in Nat /\ Len(stack) # 0 /\ DOMAIN stack = 1..Len(stack)
        /\ stack' \in Seq(Frames) /\ Len(stack') = Len(stack) - 1
        /\ \A k \in DOMAIN stack' : stack'[k] = stack[k]
    <3>1. DOMAIN stack = 1..Len(stack)
      BY <2>2
    <3> QED
      BY <2>1, <2>2, <3>1, FrameLemma, Zenon
  <2>4. DOMAIN stack' = 1..(Len(stack) - 1)
    BY <2>3
  <2>5. \A k \in DOMAIN stack : k \in DOMAIN stack' \/ stack[k].calls = {}
    BY <2>1, <2>3, <2>4 DEF Top
  <2> QED
    BY <2>1, <2>3, <2>5 DEF DrawInv
<1> QED
  BY <1>1, <1>2, <1>3, <1>4, <1>5, <1>6 DEF Next, Proceed

LEMMA PairNotTriple ==
  ASSUME NEW a, NEW b, NEW c, NEW x, NEW y
  PROVE  <<a, b>> # <<c, x, y>>
<1>1. Len(<<a, b>>) = 2 /\ Len(<<c, x, y>>) = 3
  OBVIOUS
<1> QED
  BY <1>1

LEMMA TripleEqual ==
  ASSUME NEW a, NEW b, NEW c, NEW x, NEW y, NEW z, <<a, b, c>> = <<x, y, z>>
  PROVE  a = x /\ b = y /\ c = z
<1>1. /\ <<a, b, c>>[1] = a /\ <<a, b, c>>[2] = b /\ <<a, b, c>>[3] = c
      /\ <<x, y, z>>[1] = x /\ <<x, y, z>>[2] = y /\ <<x, y, z>>[3] = z
  OBVIOUS
<1> QED
  BY <1>1, Zenon

(* Two diagrams of roots with one path are of one root and one machine.    *)
LEMMA PathsApart ==
  ASSUME GInv, phase = "generate", UniqueNames, NEW i \in DOMAIN found, NEW j \in DOMAIN found,
         NEW d \in DiagramsOf(i), NEW e \in DiagramsOf(j), d.path = e.path
  PROVE  d = e
<1>1. found \in Seq(Definitions) /\ options.breakdown \in {"None", "Flat", "Nested", "Both"}
  BY DEF GInv, GenTypes, Progress
<1>2. Own(i).path = <<found[i].name, found[i].name>> /\ Own(j).path = <<found[j].name, found[j].name>>
  BY <1>1, OwnTyped
<1>3. CASE d = Own(i) /\ e = Own(j)
  <2>1. found[i].name = found[j].name
    BY <1>2, <1>3
  <2> QED
    BY <1>3, <2>1 DEF UniqueNames
<1>4. CASE d = Own(i) /\ e \in Breakdowns(found[j])
  BY <1>2, <1>4, BreakdownTyped, PairNotTriple
<1>5. CASE d \in Breakdowns(found[i]) /\ e = Own(j)
  BY <1>2, <1>5, BreakdownTyped, PairNotTriple
<1>6. CASE d \in Breakdowns(found[i]) /\ e \in Breakdowns(found[j])
  <2> DEFINE In(k, dir, n, nested) ==
               Diagram(Definition(found, n), <<found[k].name, dir, n>>, nested)
             Kind(dir, nested) ==
               \/ options.breakdown = "Flat" /\ dir = "breakdown" /\ nested = FALSE
               \/ options.breakdown = "Nested" /\ dir = "breakdown" /\ nested = TRUE
               \/ options.breakdown = "Both" /\ dir = "breakdown_flat" /\ nested = FALSE
               \/ options.breakdown = "Both" /\ dir = "breakdown_nested" /\ nested = TRUE
  <2>1. ASSUME NEW k \in DOMAIN found, NEW b \in Breakdowns(found[k])
        PROVE  \E dir, nested, n : b = In(k, dir, n, nested) /\ Kind(dir, nested)
    <3>1. \E dir, nested : b \in Breakdown(found[k], dir, nested) /\ Kind(dir, nested)
      BY <1>1 DEF Breakdowns
    <3> HIDE DEF Kind
    <3> QED
      BY <3>1 DEF Breakdown
  <2>2. \A k, dir, n, nested : In(k, dir, n, nested).path = <<found[k].name, dir, n>>
    BY DEF Diagram
  <2>3. \A dir, nested, nested2 : Kind(dir, nested) /\ Kind(dir, nested2) => nested = nested2
    OBVIOUS
  <2> HIDE DEF In, Kind
  <2>4. PICK dir, nested, n : d = In(i, dir, n, nested) /\ Kind(dir, nested)
    BY <1>6, <2>1
  <2>5. PICK dir2, nested2, n2 : e = In(j, dir2, n2, nested2) /\ Kind(dir2, nested2)
    BY <1>6, <2>1
  <2>6. <<found[i].name, dir, n>> = <<found[j].name, dir2, n2>>
    BY <2>2, <2>4, <2>5
  <2>7. found[i].name = found[j].name /\ dir = dir2 /\ n = n2
    BY <2>6, TripleEqual
  <2>8. i = j
    BY <2>7 DEF UniqueNames
  <2> QED
    BY <2>3, <2>4, <2>5, <2>7, <2>8
<1> QED
  BY <1>3, <1>4, <1>5, <1>6 DEF DiagramsOf

(* What is written nested is complete.                                     *)
LEMMA WriteComplete ==
  ASSUME GInv, DrawInv, Write
  PROVE  /\ current.def \in drawn
         /\ current.nested =>
              \A n \in SubFsms(ws, found, current.def) : Definition(found, n) \in drawn
<1>1. phase = "generate" /\ stack = <<>> /\ drawn # {} /\ DOMAIN stack = {}
  BY WriteEffect
<1>2. current.def \in drawn
  BY <1>1 DEF DrawInv
<1>3. ASSUME current.nested
      PROVE  \A n \in SubFsms(ws, found, current.def) : Definition(found, n) \in drawn
  <2> DEFINE S == {n \in Names(found) : Definition(found, n) \in drawn}
  <2>1. \A e \in drawn : \A n \in Children(ws, found, e) : Definition(found, n) \in drawn
    BY <1>1, <1>3 DEF DrawInv
  <2>2. \A e \in drawn : Children(ws, found, e) \subseteq S
    BY <2>1 DEF Children
  <2>3. S \in SUBSET Names(found)
    OBVIOUS
  <2>4. \A m \in S : Children(ws, found, Definition(found, m)) \subseteq S
    BY <2>2
  <2>5. Children(ws, found, current.def) \subseteq S
    BY <1>2, <2>2
  <2>6. SubFsms(ws, found, current.def) \subseteq S
    <3> HIDE DEF S
    <3> QED
      BY <2>3, <2>4, <2>5, SubFsmsLeast
  <2> QED
    BY <2>6
<1> QED
  BY <1>2, <1>3

LEMMA LastStep == GInv /\ OrderInv /\ DrawInv /\ LastInv /\ [Next]_vars => LastInv'
<1> SUFFICES ASSUME GInv, OrderInv, DrawInv, LastInv, [Next]_vars PROVE LastInv'
  OBVIOUS
<1> DEFINE Latest(i) == \A j \in DOMAIN found : found[j].name = found[i].name => j <= i
           There(i) == Own(i).path \in DOMAIN disk /\ found[i] \in disk[Own(i).path]
<1>0. \A i \in Started : i \in DOMAIN found /\ Own(i) # Unset
  BY StartedTyped, OwnTyped, UnsetAssumption
<1>1. CASE phase' \notin {"generate", "done"} \/ (Started' = {} /\ Pending' = {})
  BY <1>1 DEF LastInv
<1>2. CASE phase \in {"generate", "done"}
           /\ UNCHANGED <<ws, found, options, roots, current, todo, disk>>
  BY <1>2, SameDiagrams DEF LastInv, Started
<1>3. ASSUME NEW r \in roots, NextRoot(r) PROVE LastInv'
  <2>1. /\ phase = "generate" /\ UNCHANGED <<ws, found, options, disk>> /\ current = Unset
        /\ current' = Own(r) /\ Started' = Started \cup {r}
    BY <1>3, NextRootEffect
  <2> QED
    BY <1>0, <2>1, SameDiagrams DEF LastInv
<1>4. ASSUME NEW d \in todo, NextDiagram(d) PROVE LastInv'
  <2>1. /\ phase = "generate" /\ UNCHANGED <<ws, found, options, disk, roots>> /\ current = Unset
    BY <1>4, NextDiagramEffect
  <2> QED
    BY <1>0, <2>1, SameDiagrams DEF LastInv, Started
<1>5. CASE Write
  <2>1. /\ phase = "generate" /\ UNCHANGED <<ws, found, options, roots>> /\ current \in Pending
        /\ DOMAIN disk' = DOMAIN disk \cup {current.path} /\ disk'[current.path] = drawn
        /\ \A p : p # current.path /\ p \in DOMAIN disk => disk'[p] = disk[p]
    BY <1>5, WriteEffect
  <2>2. ASSUME NEW i \in Started, Latest(i)
        PROVE  Own(i).path \in DOMAIN disk' /\ found[i] \in disk'[Own(i).path]
    <3>1. i \in DOMAIN found /\ found \in Seq(Definitions) /\ DOMAIN found \subseteq Nat
      BY <1>0, StartedTyped
    <3>2. Own(i).path = <<found[i].name, found[i].name>> /\ Own(i).def = found[i]
      BY <3>1, OwnTyped
    <3>3. CASE current.path # Own(i).path
      <4>1. current # Own(i) /\ There(i)
        BY <2>1, <2>2, <3>3 DEF LastInv
      <4> QED
        BY <2>1, <3>3, <4>1
    <3>4. CASE current.path = Own(i).path
      <4>1. PICK j \in Started : current \in DiagramsOf(j) /\ i <= j
        BY <2>1 DEF OrderInv
      <4>2. j \in DOMAIN found
        BY <1>0
      <4>3. current = Own(j)
        BY <2>1, <3>2, <3>4, <4>1, <4>2, BreakdownTyped, PairNotTriple DEF DiagramsOf
      <4>4. found[j].name = found[i].name
        BY <3>1, <3>2, <3>4, <4>2, <4>3, OwnTyped
      <4>5. i = j
        BY <2>2, <3>1, <4>1, <4>2, <4>4
      <4> QED
        BY <1>5, <2>1, <3>2, <3>4, <4>3, <4>5, WriteComplete
    <3> QED
      BY <3>3, <3>4
  <2> QED
    BY <2>1, <2>2, SameDiagrams DEF LastInv, Started
<1> QED
  BY <1>1, <1>2, <1>3, <1>4, <1>5, RootSteps

LEMMA KeptStep ==
  GInv /\ OrderInv /\ DrawInv /\ KeptInv /\ [Next]_vars => KeptInv'
<1> SUFFICES ASSUME GInv, OrderInv, DrawInv, KeptInv, [Next]_vars PROVE KeptInv'
  OBVIOUS
<1>1. CASE phase' \notin {"generate", "done"} \/ (Started' = {} /\ Pending' = {})
  BY <1>1 DEF KeptInv
<1>2. CASE phase \in {"generate", "done"}
           /\ UNCHANGED <<ws, found, options, roots, current, todo, disk>>
  BY <1>2, SameDiagrams DEF KeptInv, UniqueNames, Started, Pending, Written
<1>3. ASSUME NEW r \in roots, NextRoot(r) PROVE KeptInv'
  <2>1. /\ phase = "generate" /\ UNCHANGED <<ws, found, options, disk>> /\ Pending = {}
        /\ Pending' = DiagramsOf(r) /\ Started' = Started \cup {r}
    BY <1>3, NextRootEffect
  <2> QED
    BY <2>1, SameDiagrams DEF KeptInv, UniqueNames, Written
<1>4. ASSUME NEW d \in todo, NextDiagram(d) PROVE KeptInv'
  BY <1>4, NextDiagramEffect, SameDiagrams DEF KeptInv, UniqueNames, Started, Written
<1>5. CASE Write
  <2>1. /\ phase = "generate" /\ UNCHANGED <<ws, found, options, roots>>
        /\ current \in Pending /\ Pending' = Pending \ ({current} \ todo)
        /\ DOMAIN disk' = DOMAIN disk \cup {current.path} /\ disk'[current.path] = drawn
        /\ \A p : p # current.path /\ p \in DOMAIN disk => disk'[p] = disk[p]
    BY <1>5, WriteEffect
  <2>2. ASSUME NEW d, d = current PROVE Written(d)'
    BY <1>5, <2>1, <2>2, WriteComplete DEF Written
  <2>3. ASSUME UniqueNames, NEW i \in Started, NEW d \in DiagramsOf(i), d # current, Written(d)
        PROVE  Written(d)'
    <3>1. PICK j \in Started : current \in DiagramsOf(j)
      BY <2>1 DEF OrderInv
    <3>2. i \in DOMAIN found /\ j \in DOMAIN found
      BY StartedTyped
    <3>3. d.path # current.path
      BY <2>1, <2>3, <3>1, <3>2, PathsApart
    <3> QED
      BY <2>1, <2>3, <3>3 DEF Written
  <2>4. ASSUME UniqueNames, NEW i \in Started, NEW d \in DiagramsOf(i)
        PROVE  d \in Pending' \/ Written(d)'
    <3>1. d \in Pending \/ Written(d)
      BY <2>1, <2>4 DEF KeptInv
    <3> QED
      BY <2>1, <2>2, <2>3, <2>4, <3>1
  <2> QED
    BY <2>1, <2>4, SameDiagrams DEF KeptInv, UniqueNames, Started
<1> QED
  BY <1>1, <1>2, <1>3, <1>4, <1>5, RootSteps

LEMMA RootsInit == Init => OrderInv /\ DrawInv /\ LastInv /\ KeptInv
BY DEF Init, OrderInv, DrawInv, LastInv, KeptInv

(* Of several definitions with one name the last found is what the root's  *)
(* own file holds after a complete run: the roots are drawn in the order   *)
(* in which they were found, so the last one writes over the others.       *)
THEOREM LastOneWins == Spec => []LastDefinitionDrawn
<1>1. GInv /\ LastInv => LastDefinitionDrawn
  <2> SUFFICES ASSUME GInv, LastInv, phase = "done", NEW i \in Roots(ws, found)
               PROVE  LET n == found[i].name IN Definition(found, n) \in disk[<<n, n>>]
    BY DEF LastDefinitionDrawn
  <2> DEFINE n == found[i].name
  <2>1. found \in Seq(Definitions) /\ i \in DOMAIN found /\ n \in Names(found)
        /\ roots = {} /\ current = Unset
    BY DEF GInv, GenTypes, Progress, Roots, Names
  <2>2. PICK m \in DOMAIN found : /\ found[m].name = n /\ Definition(found, n) = found[m]
                                  /\ \A j \in DOMAIN found : found[j].name = n => j <= m
    BY <2>1, LastDefinition
  <2>3. m \in Started
    BY <2>1, <2>2 DEF Started, Roots
  <2>4. Own(m) # Unset /\ Own(m).path = <<n, n>>
    BY <2>1, <2>2, OwnTyped, UnsetAssumption
  <2> QED
    BY <2>1, <2>2, <2>3, <2>4 DEF LastInv
<1> QED
  BY <1>1, GenInit, GStep, RootsInit, OrderStep, DrawStep, LastStep, PTL DEF Spec

(* When no machine contains itself and names are unique, every machine is  *)
(* drawn in some diagram, unless the options ask for root machines only:   *)
(* it is a root or below one, the diagrams of that root are complete, and  *)
(* no other diagram has their paths.                                       *)
THEOREM EveryMachineSomewhere == Spec => []AcyclicAllDrawn
<1>1. GInv /\ KeptInv => AcyclicAllDrawn
  <2> SUFFICES ASSUME GInv, KeptInv, phase = "done", Acyclic, UniqueNames,
                      options.mode = "Hierarchical" \/ options.breakdown # "None",
                      NEW n \in Names(found)
               PROVE  Drawn(n)
    BY DEF AcyclicAllDrawn
  <2>1. found \in Seq(Definitions) /\ roots = {} /\ Pending = {}
        /\ options.breakdown \in {"None", "Flat", "Nested", "Both"}
    BY DEF GInv, GenTypes, Progress, Pending
  <2>2. PICK r \in Roots(ws, found) : found[r].name = n \/ n \in SubFsms(ws, found, found[r])
    BY <2>1, UnderSomeRoot DEF Acyclic, UniqueNames
  <2>3. r \in DOMAIN found /\ \A d \in DiagramsOf(r) : Written(d)
    BY <2>1, <2>2 DEF KeptInv, Started, Roots
  <2>4. /\ Own(r).def = found[r] /\ Own(r).nested = (options.mode = "Hierarchical")
        /\ Own(r) \in DiagramsOf(r)
    BY <2>1, <2>3, OwnTyped DEF DiagramsOf
  <2>5. CASE found[r].name = n
    <3>1. Definition(found, n) = found[r]
      BY <2>1, <2>3, <2>5, LastDefinition DEF UniqueNames
    <3> QED
      BY <2>3, <2>4, <3>1 DEF Written, Drawn
  <2>6. CASE n \in SubFsms(ws, found, found[r]) /\ options.mode = "Hierarchical"
    BY <2>3, <2>4, <2>6 DEF Written, Drawn
  <2>7. CASE n \in SubFsms(ws, found, found[r]) /\ options.breakdown # "None"
    <3>1. PICK d \in Breakdowns(found[r]) : d.def = Definition(found, n)
      <4>1. PICK dir, b : Breakdown(found[r], dir, b) \subseteq Breakdowns(found[r])
        BY <2>1, <2>7 DEF Breakdowns
      <4>2. Diagram(Definition(found, n), <<found[r].name, dir, n>>, b) \in Breakdown(found[r], dir, b)
        BY <2>7 DEF Breakdown
      <4> QED
        BY <4>1, <4>2 DEF Diagram
    <3> QED
      BY <2>3, <3>1 DEF Written, Drawn, DiagramsOf
  <2> QED
    BY <2>2, <2>5, <2>6, <2>7
<1> QED
  BY <1>1, GenInit, GStep, RootsInit, OrderStep, DrawStep, KeptStep, PTL DEF Spec

=============================================================================
