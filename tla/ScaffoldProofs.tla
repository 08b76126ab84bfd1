---------------------------- MODULE ScaffoldProofs ----------------------------
(***************************************************************************)
(* Proofs about Scaffold, for every set of entities and field lists and    *)
(* any number of faults: what is there once a registrar is, that a clear   *)
(* makes room for a retry, and which entities can be served after it.      *)
(***************************************************************************)
EXTENDS Scaffold, FiniteSetTheorems, TLAPS

\* The kinds writeFromTemplate writes, and those a registrar cannot do without.
Written == Kinds \ {"gen"}
Needed == Kinds \ {"routes", "repo-mem", "gen"}

\* The generator and the Makefile name the files of e alike.
OneWord(e) == Lower(e) = Snake(e)

\* If there is a registrar of e, its service is there, and the code they import
\* unless it is still to be generated.
Complete(e) ==
    LET made == files[<<"routes", Lower(e)>>]
        whole == From(made.entity, made.fields, TRUE)
    IN  made # None =>
          /\ \A k \in Needed : files[<<k, Lower(e)>>] = whole
          /\ e \notin pending => files[<<"gen", Lower(e)>>] = whole

Complemented == \A e \in Entities : e \in bare \/ Complete(e)

\* The file is not there, or rm could not remove it.
Gone(f) == files[f] = None \/ f \in left

\* The generator at work: what it has written is there, and, after a clear, what
\* it has still to write is not.
Scaffolding ==
    LET parts == Generated(job.mem)
        at(i) == <<parts[i], Lower(job.entity)>>
    IN  Running("scaffold") =>
          /\ job.entity \in Entities \ cleared /\ job.fields \in Models
          /\ job.at \in 1..Len(parts)
          /\ \A i \in 1..(job.at - 1) : parts[i] \in Written => files[at(i)] = Model
          /\ job.found = "cleared" /\ OneWord(job.entity) =>
                \A i \in job.at..Len(parts) : parts[i] \in Written => Gone(at(i))

Clearing ==
    Running("clear") =>
        /\ job.at \in 1..Len(Removed)
        /\ job.entity \in Entities =>
            \A i \in 1..(job.at - 1) : Gone(<<Removed[i], Snake(job.entity)>>)

Cleared ==
    \A e \in cleared : OneWord(e) => \A k \in Written : Gone(<<k, Lower(e)>>)

IInv ==
    /\ TypeOK
    /\ Complemented /\ Scaffolding /\ Clearing /\ Cleared
    /\ RetryAfterClear

------------------------------------------------------------------------------
\* main writes each part once; the registrar comes after everything it needs,
\* the code generation and go fmt after it.
LEMMA Order ==
    ASSUME NEW mem \in WithMemory
    PROVE  /\ Len(Generated(mem)) \in {10, 11}
           /\ \A i \in 1..Len(Generated(mem)) : Generated(mem)[i] \in Kinds \cup {"schema", "fmt"}
           /\ \A i, j \in 1..Len(Generated(mem)) :
                Generated(mem)[i] = Generated(mem)[j] => i = j
           /\ \A i \in 1..Len(Generated(mem)) : Generated(mem)[i] = "routes" =>
                \A k \in Needed : \E j \in 1..(i - 1) : Generated(mem)[j] = k
           /\ Generated(mem)[Len(Generated(mem)) - 1] = "gen"
           /\ Generated(mem)[Len(Generated(mem))] = "fmt"
<1> DEFINE g == Generated(mem)
<1>1. CASE mem = <<"repo-mem">>
    <2>1. /\ Len(g) = 11
          /\ g[1] = "proto" /\ g[2] = "domain" /\ g[3] = "usecase" /\ g[4] = "handler"
          /\ g[5] = "domain-repo" /\ g[6] = "repo-mem" /\ g[7] = "repo-mysql"
          /\ g[8] = "schema" /\ g[9] = "routes" /\ g[10] = "gen" /\ g[11] = "fmt"
        BY <1>1 DEF Generated
    <2> HIDE DEF g
    <2>2. \A i \in 1..Len(g) : i \in {1, 2, 3, 4, 5, 6, 7, 8, 9, 10, 11}
        BY <2>1
    <2>3. Needed = {"proto", "domain", "usecase", "handler", "domain-repo", "repo-mysql"}
        BY DEF Needed, Kinds
    <2>4. \A k \in Needed : \E j \in 1..8 : g[j] = k
        BY <2>1, <2>3
    <2> QED
        BY <2>1, <2>2, <2>4 DEF g, Kinds
<1>2. CASE mem = <<>>
    <2>1. /\ Len(g) = 10
          /\ g[1] = "proto" /\ g[2] = "domain" /\ g[3] = "usecase" /\ g[4] = "handler"
          /\ g[5] = "domain-repo" /\ g[6] = "repo-mysql"
          /\ g[7] = "schema" /\ g[8] = "routes" /\ g[9] = "gen" /\ g[10] = "fmt"
        BY <1>2 DEF Generated
    <2> HIDE DEF g
    <2>2. \A i \in 1..Len(g) : i \in {1, 2, 3, 4, 5, 6, 7, 8, 9, 10}
        BY <2>1
    <2>3. Needed = {"proto", "domain", "usecase", "handler", "domain-repo", "repo-mysql"}
        BY DEF Needed, Kinds
    <2>4. \A k \in Needed : \E j \in 1..7 : g[j] = k
        BY <2>1, <2>3
    <2> QED
        BY <2>1, <2>2, <2>4 DEF g, Kinds
<1> QED
    BY <1>1, <1>2 DEF WithMemory

\* rm is given every kind.
LEMMA Removals ==
    /\ Len(Removed) = 9
    /\ \A i \in 1..9 : Removed[i] \in Kinds
    /\ \A k \in Kinds : \E i \in 1..9 : Removed[i] = k
<1>1. /\ Len(Removed) = 9
      /\ Removed[1] = "proto" /\ Removed[2] = "gen" /\ Removed[3] = "domain"
      /\ Removed[4] = "domain-repo" /\ Removed[5] = "usecase" /\ Removed[6] = "handler"
      /\ Removed[7] = "routes" /\ Removed[8] = "repo-mem" /\ Removed[9] = "repo-mysql"
    BY DEF Removed
<1>2. \A i \in 1..9 : i \in {1, 2, 3, 4, 5, 6, 7, 8, 9}
    OBVIOUS
<1> QED
    BY <1>1, <1>2 DEF Kinds

LEMMA NamesOf ==
    ASSUME NEW e \in Entities
    PROVE  Lower(e) \in Names /\ Snake(e) \in Names /\ Table(e) \in Tables
BY DEF Names, Tables

\* Two entities never have a name in common, and the generator and the Makefile
\* name the files of an entity alike exactly when it is of one word.
LEMMA NamesDiffer ==
    ASSUME NEW d \in Entities, NEW e \in Entities
    PROVE  /\ Lower(d) = Lower(e) => d = e
           /\ Snake(d) = Lower(e) => d = e
           /\ OneWord(e) <=> Len(e) = 1
           /\ Lower(e) # <<>>
<1>1. /\ d \in Seq(STRING) /\ d # <<>> /\ d[1] # "camel"
      /\ e \in Seq(STRING) /\ e # <<>> /\ e[1] # "camel"
    BY EntitiesAssumption
<1>2. ASSUME NEW w \in Seq(STRING), Len(w) # 1
      PROVE  /\ Lower(w) = <<"camel">> \o w
             /\ Len(Lower(w)) = Len(w) + 1 /\ Lower(w)[1] = "camel"
             /\ \A i \in 1..Len(w) : Lower(w)[i + 1] = w[i]
    BY <1>2 DEF Lower, Camel
<1>3. ASSUME NEW w \in Seq(STRING), Len(w) = 1
      PROVE  Lower(w) = w
    BY <1>3 DEF Lower, Camel
<1>4. Lower(d) = Lower(e) => d = e
    <2>1. CASE Len(d) = 1 /\ Len(e) = 1
        BY <1>1, <1>3, <2>1
    <2>2. CASE Len(d) # 1 /\ Len(e) # 1
        <3>1. SUFFICES ASSUME Lower(d) = Lower(e)
                       PROVE  d = e
            OBVIOUS
        <3>2. Len(d) = Len(e)
            BY <1>1, <1>2, <2>2, <3>1
        <3>3. \A i \in 1..Len(d) : d[i] = e[i]
            BY <1>1, <1>2, <2>2, <3>1, <3>2
        <3> QED
            BY <1>1, <3>2, <3>3
    <2>3. CASE Len(d) = 1 /\ Len(e) # 1
        BY <1>1, <1>2, <1>3, <2>3
    <2>4. CASE Len(d) # 1 /\ Len(e) = 1
        BY <1>1, <1>2, <1>3, <2>4
    <2> QED
        BY <2>1, <2>2, <2>3, <2>4
<1>5. Snake(d) = Lower(e) => d = e
    BY <1>1, <1>2, <1>3 DEF Snake
<1>6. OneWord(e) <=> Len(e) = 1
    BY <1>1, <1>2, <1>3 DEF OneWord, Snake
<1>7. Lower(e) # <<>>
    BY <1>1, <1>2, <1>3
<1> QED
    BY <1>4, <1>5, <1>6, <1>7

\* The part the generator is at.
LEMMA AtPart ==
    ASSUME TypeOK, Scaffolding, Running("scaffold")
    PROVE  /\ Parts = Generated(job.mem) /\ job.mem \in WithMemory
           /\ job.at \in 1..Len(Parts) /\ Part = Parts[job.at]
           /\ Part \in Kinds \cup {"schema", "fmt"} /\ (File <=> Part \in Written)
           /\ Part = "gen" <=> job.at = Len(Parts) - 1
           /\ Part = "fmt" <=> job.at = Len(Parts)
           /\ job.entity \in Entities \ cleared /\ job.fields \in Models
           /\ Model \in Origin
<1>1. /\ Parts = Generated(job.mem) /\ job.mem \in WithMemory
      /\ job.at \in 1..Len(Parts) /\ Part = Parts[job.at]
      /\ job.entity \in Entities \ cleared /\ job.fields \in Models
    BY DEF TypeOK, Scaffolding, Running, Parts, Part
<1>2. Len(Parts) \in 1..Len(Parts) /\ Len(Parts) - 1 \in 1..Len(Parts)
    BY <1>1, Order
<1>3. /\ Part = "gen" <=> job.at = Len(Parts) - 1
      /\ Part = "fmt" <=> job.at = Len(Parts)
    BY <1>1, <1>2, Order
<1>4. Part \in Kinds \cup {"schema", "fmt"} /\ (File <=> Part \in Written)
    BY <1>1, Order DEF File, Written, Kinds
<1> QED
    BY <1>1, <1>3, <1>4 DEF Model, From, Origin

------------------------------------------------------------------------------
Ends == {"running", "ok", "exists", "failed"}
Jobs == [cmd : {"none", "scaffold", "clear"}, entity : Entities \cup {None},
         fields : Models \cup {None}, mem : WithMemory, at : Nat \ {0}, end : Ends,
         found : {"cleared", "anything"}]

LEMMA JobTyped ==
    ASSUME NEW cmd \in {"none", "scaffold", "clear"}, NEW e \in Entities \cup {None},
           NEW fs \in Models \cup {None}, NEW mem \in WithMemory, NEW end \in Ends,
           NEW found \in {"cleared", "anything"}
    PROVE  [cmd |-> cmd, entity |-> e, fields |-> fs, mem |-> mem, at |-> 1, end |-> end,
            found |-> found] \in Jobs
BY DEF Jobs

LEMMA FailedTyped ==
    Failed \in Jobs /\ Failed.cmd = "none" /\ Failed.end = "failed"
<1>1. Failed = [cmd |-> "none", entity |-> None, fields |-> None, mem |-> <<>>,
                at |-> 1, end |-> "failed", found |-> "anything"]
    BY DEF Failed, NoJob
<1> QED
    BY <1>1, JobTyped DEF Ends, WithMemory

\* rm is given finitely many files.
LEMMA NamesFinite == IsFiniteSet(Names)
<1>1. [e \in Entities |-> Lower(e)] \in Surjection(Entities, {Lower(e) : e \in Entities})
    BY DEF Surjection
<1>2. IsFiniteSet({Lower(e) : e \in Entities})
    BY <1>1, FS_Surjection, EntitiesAssumption
<1>3. {Snake(e) : e \in Entities} = Entities
    BY DEF Snake
<1> QED
    BY <1>2, <1>3, FS_Union, EntitiesAssumption DEF Names

\* What an argument of rm names.
LEMMA AtRemoval ==
    ASSUME TypeOK, Clearing, Running("clear")
    PROVE  /\ Parts = Removed /\ job.at \in 1..9 /\ Len(Removed) = 9
           /\ Part = Removed[job.at] /\ Part \in Kinds
           /\ job.entity \in Entities \cup {None}
           /\ Doomed \subseteq Kinds \X Names /\ IsFiniteSet(Doomed)
           /\ job.entity \in Entities => Doomed = {<<Part, Snake(job.entity)>>}
<1>1. /\ Parts = Removed /\ job.at \in 1..9 /\ Len(Removed) = 9
      /\ Part = Removed[job.at] /\ Part \in Kinds
      /\ job.entity \in Entities \cup {None}
    BY Removals DEF TypeOK, Clearing, Running, Parts, Part
<1>2. CASE job.entity \in Entities
    <2>1. job.entity # None
        BY <1>2, EntitiesAssumption
    <2>2. Doomed = {<<Part, Snake(job.entity)>>}
        BY <2>1 DEF Doomed
    <2>3. Doomed \subseteq Kinds \X Names
        BY <1>1, <1>2, <2>2, NamesOf
    <2> QED
        BY <1>1, <2>2, <2>3, FS_Singleton
<1>3. CASE job.entity = None
    <2>1. job.entity \notin Entities
        BY <1>3, EntitiesAssumption
    <2>2. PICK N \in {Names, {}} : Doomed = {Part} \X N
        BY <1>3 DEF Doomed
    <2>3. IsFiniteSet(N)
        BY NamesFinite, FS_EmptySet
    <2>4. IsFiniteSet({Part} \X N)
        BY <2>3, FS_Singleton, FS_Product
    <2> QED
        BY <1>1, <2>1, <2>2, <2>4
<1> QED
    BY <1>1, <1>2, <1>3

LEMMA TypesPreserved ==
    ASSUME TypeOK, Scaffolding, Clearing, [Next]_vars
    PROVE  TypeOK'
<1> USE DEF TypeOK, Jobs, Ends
<1>1. ASSUME NEW e \in Entities, NEW fs \in FieldLists, NEW mem \in WithMemory,
             Generate(e, fs, mem)
      PROVE  TypeOK'
    <2>1. PICK found \in {"cleared", "anything"} :
            found = IF e \in cleared THEN "cleared" ELSE "anything"
        OBVIOUS
    <2>2. CASE Accepted(fs)
        <3>1. fs \in Models
            BY <2>2 DEF Models
        <3>2. job' = [cmd |-> "scaffold", entity |-> e, fields |-> fs, mem |-> mem,
                      at |-> 1, end |-> "running", found |-> found]
            BY <1>1, <2>1, <2>2 DEF Generate
        <3>3. job' \in Jobs
            BY <3>1, <3>2, JobTyped DEF Ends
        <3> QED
            BY <1>1, <3>3 DEF Generate, Jobs, Ends
    <2>3. CASE ~Accepted(fs)
        BY <1>1, <2>3, FailedTyped DEF Generate
    <2> QED
        BY <2>2, <2>3
<1>2. ASSUME NEW e \in Entities \cup {None}, Clear(e)
      PROVE  TypeOK'
    <2>1. job' = [cmd |-> "clear", entity |-> e, fields |-> None, mem |-> <<>>,
                  at |-> 1, end |-> "running", found |-> "anything"]
        BY <1>2 DEF Clear, NoJob
    <2>2. job' \in Jobs
        BY <2>1, JobTyped DEF Ends, WithMemory
    <2> QED
        BY <1>2, <2>2 DEF Clear, history, Jobs, Ends
<1>3. ASSUME Advance, Running("scaffold") \/ Running("clear")
      PROVE  job' \in Jobs
    <2>1. PICK x : /\ x = IF job.at = Len(Parts) THEN "ok" ELSE job.end
                   /\ job' = [job EXCEPT !.at = job.at + 1, !.end = x]
        BY <1>3, Zenon DEF Advance
    <2>2. x \in {"running", "ok", "exists", "failed"}
        BY <2>1
    <2>3. job.at + 1 \in Nat \ {0}
        OBVIOUS
    <2> QED
        BY <2>1, <2>2, <2>3
<1>4. ASSUME NEW n \in Nat, Fault(n)
      PROVE  faults' \in 0..MaxFaults
    BY <1>4, EntitiesAssumption DEF Fault
<1>5. ASSUME NEW whole \in BOOLEAN, Running("scaffold"), Put(whole)
      PROVE  /\ files' \in [Kinds \X Names -> Origin \cup {None}]
             /\ pending' \subseteq Entities
    <2>1. From(job.entity, job.fields, whole) \in Origin
        BY <1>5, AtPart DEF Origin, From
    <2> QED
        BY <1>5, <2>1, AtPart, NamesOf DEF Put, Target, Written, Kinds
<1>6. CASE Write
    BY <1>3, <1>5, <1>6 DEF Write
<1>7. CASE Exists
    BY <1>7 DEF Exists, history
<1>8. CASE AddTable
    BY <1>3, <1>8, AtPart, NamesOf DEF AddTable, history
<1>9. ASSUME NEW N \in SUBSET Protos, NEW cut, files' = Compiled(N, cut)
      PROVE  files' \in [Kinds \X Names -> Origin \cup {None}]
    <2>1. ASSUME NEW n \in N, NEW whole \in BOOLEAN
          PROVE  From(files["proto", n].entity, files["proto", n].fields, whole) \in Origin
        BY DEF Protos, Kinds, Origin, From
    <2> QED
        BY <1>9, <2>1 DEF Compiled
<1>10. CASE Protogen
    BY <1>3, <1>9, <1>10, FailedTyped DEF Protogen
<1>11. CASE Format
    BY <1>3, <1>11, FailedTyped DEF Format, history
<1>12. CASE Stop
    <2>1. job' \in Jobs /\ faults' \in 0..MaxFaults
        BY <1>4, <1>12, FailedTyped DEF Stop
    <2>2. /\ files' \in [Kinds \X Names -> Origin \cup {None}]
          /\ pending' \subseteq Entities
        BY <1>5, <1>9, <1>12 DEF Stop
    <2>3. ASSUME NEW kept, NEW cut, CutTables(kept, cut), Running("scaffold")
          PROVE  schema' \in [Tables -> Origin \cup {None}]
        <3>1. ASSUME NEW t \in Tables, NEW made \in Origin \cup {None}
              PROVE  (IF t \notin kept \/ made = None THEN None
                      ELSE IF t \in cut THEN From(made.entity, made.fields, FALSE) ELSE made)
                        \in Origin \cup {None}
            BY DEF Origin, From
        <3>2. \A t \in Tables :
                (IF t = Table(job.entity) THEN Model ELSE schema[t]) \in Origin \cup {None}
            BY <2>3, AtPart
        <3> QED
            BY <2>3, <3>1, <3>2 DEF CutTables
    <2>4. schema' \in [Tables -> Origin \cup {None}]
        BY <1>12, <2>3 DEF Stop
    <2> QED
        BY <1>12, <2>1, <2>2, <2>4 DEF Stop
<1>13. CASE Remove
    <2>1. job' \in Jobs
        BY <1>3, <1>13 DEF Remove
    <2>2. PICK stays \in SUBSET {f \in Doomed : files[f] # None} :
            /\ Fault(Cardinality(stays))
            /\ left' = (left \ Doomed) \cup stays
            /\ files' = [f \in Kinds \X Names |->
                            IF f \in Doomed \ stays THEN None ELSE files[f]]
        BY <1>13 DEF Remove
    <2>3. stays \in SUBSET Doomed /\ Doomed \subseteq Kinds \X Names /\ IsFiniteSet(Doomed)
        BY <1>13, AtRemoval DEF Remove
    <2>4. Cardinality(stays) \in Nat
        BY <2>3, FS_Subset, FS_CardinalityType
    <2>5. faults' \in 0..MaxFaults
        BY <1>4, <2>2, <2>4
    <2>6. /\ left' \subseteq Kinds \X Names
          /\ files' \in [Kinds \X Names -> Origin \cup {None}]
        BY <2>2, <2>3
    <2>7. bare' \subseteq Entities /\ pending' \subseteq Entities /\ cleared' \subseteq Entities
        BY <1>13 DEF Remove
    <2> QED
        BY <1>13, <2>1, <2>5, <2>6, <2>7 DEF Remove
<1>14. CASE Kill
    BY <1>4, <1>14, FailedTyped DEF Kill, history
<1>15. CASE UNCHANGED vars
    BY <1>15 DEF vars, history
<1> QED
    BY <1>1, <1>2, <1>6, <1>7, <1>8, <1>10, <1>11, <1>12, <1>13, <1>14, <1>15 DEF Next

------------------------------------------------------------------------------
\* No step but those of rm, the generator's writes and the code generation
\* disturbs what is there.
LEMMA Untouched ==
    ASSUME IInv, UNCHANGED <<files, left, bare, pending>>, cleared' \subseteq cleared
    PROVE  Complemented' /\ Cleared'
BY DEF IInv, Complemented, Complete, Cleared, Gone, OneWord

\* What the generator goes by does not depend on the generated code.
SameWritten == \A k \in Written, n \in Names : files'[<<k, n>>] = files[<<k, n>>]

\* What a file is made from, written whole.
LEMMA Rewritten ==
    ASSUME NEW m \in Origin
    PROVE  From(m.entity, m.fields, TRUE) \in Origin /\ From(m.entity, m.fields, TRUE) # None
<1>1. From(m.entity, m.fields, TRUE) \in Origin
    BY DEF From, Origin
<1> QED
    BY <1>1, EntitiesAssumption

\* buf makes the code of what a registrar registers from its own proto.
LEMMA CodeMade ==
    ASSUME IInv, NEW N \in SUBSET Protos, NEW cut \in SUBSET N, files' = Compiled(N, cut),
           UNCHANGED <<left, bare, cleared>>,
           \/ N = Protos /\ cut = {}
           \/ pending' = pending \cup {e \in Entities : Lower(e) \in cut}
    PROVE  SameWritten /\ Complemented' /\ Cleared'
<1> USE DEF IInv
<1>1. ASSUME NEW k \in Written, NEW n \in Names
      PROVE  files'[<<k, n>>] = files[<<k, n>>]
    <2>1. <<k, n>> \in Kinds \X Names /\ <<k, n>>[1] # "gen"
        BY DEF Written
    <2> QED
        BY <2>1 DEF Compiled
<1>2. SameWritten
    BY <1>1 DEF SameWritten
<1>3. Cleared'
    <2>1. ASSUME NEW e \in cleared, OneWord(e), NEW k \in Written
          PROVE  Gone(<<k, Lower(e)>>)'
        <3>1. Gone(<<k, Lower(e)>>) /\ Lower(e) \in Names
            BY <2>1, NamesOf DEF Cleared, TypeOK
        <3> QED
            BY <1>1, <3>1 DEF Gone
    <2> QED
        BY <2>1 DEF Cleared, OneWord
<1>4. ASSUME NEW e \in Entities, Complete(e)
      PROVE  Complete(e)'
    <2> DEFINE n == Lower(e)
               made == files[<<"routes", n>>]
               whole == From(made.entity, made.fields, TRUE)
    <2>1. /\ n \in Names /\ "routes" \in Written /\ Needed \subseteq Written
          /\ "proto" \in Needed
        BY NamesOf DEF Written, Needed, Kinds
    <2>2. \A k \in Written : files'[<<k, n>>] = files[<<k, n>>]
        BY <1>1, <2>1
    <2>3. CASE made = None
        BY <2>1, <2>2, <2>3 DEF Complete
    <2>4. CASE made # None
        <3>1. made \in Origin
            BY <2>1, <2>4 DEF TypeOK, Written
        <3>2. whole \in Origin /\ whole # None
            BY <3>1, Rewritten
        <3>3. files[<<"proto", n>>] = whole
            BY <2>1, <2>4, <1>4 DEF Complete
        <3>4. whole.entity = made.entity /\ whole.fields = made.fields
            BY DEF From
        <3>5. n \in Protos
            BY <2>1, <3>2, <3>3 DEF Protos
        <3>6. <<"gen", n>> \in Kinds \X Names
            BY <2>1 DEF Kinds
        <3>7. n \in N /\ n \notin cut => files'[<<"gen", n>>] = whole
            BY <3>3, <3>4, <3>6 DEF Compiled
        <3>8. n \notin N => files'[<<"gen", n>>] = files[<<"gen", n>>]
            BY <3>6 DEF Compiled
        <3>9. e \notin pending' => files'[<<"gen", n>>] = whole
            <4>1. CASE N = Protos /\ cut = {}
                BY <3>5, <3>7, <4>1
            <4>2. CASE pending' = pending \cup {d \in Entities : Lower(d) \in cut}
                BY <1>4, <2>4, <3>7, <3>8, <4>2 DEF Complete
            <4> QED
                BY <4>1, <4>2
        <3>10. \A k \in Needed : files'[<<k, n>>] = whole
            BY <1>4, <2>1, <2>2, <2>4 DEF Complete
        <3>11. files'[<<"routes", n>>] = made
            BY <2>1, <2>2
        <3> QED
            BY <3>9, <3>10, <3>11 DEF Complete
    <2> QED
        BY <2>3, <2>4
<1> QED
    BY <1>2, <1>3, <1>4 DEF Complemented

\* The generator writes a file that was not there, whole or not.
LEMMA Filled ==
    ASSUME IInv, Running("scaffold"), NEW whole \in BOOLEAN, Put(whole),
           NEW e, e = job.entity, UNCHANGED <<left, bare, cleared>>
    PROVE  Complemented' /\ Cleared'
<1> USE DEF IInv
<1> DEFINE f == From(e, job.fields, whole)
<1>1. /\ Part \in Written /\ e \in Entities \ cleared /\ Model \in Origin
      /\ job.mem \in WithMemory /\ Parts = Generated(job.mem)
      /\ job.at \in 1..Len(Parts) /\ Part = Parts[job.at]
      /\ job.fields \in Models
    BY AtPart DEF Put
<1>2. /\ Target \in DOMAIN files /\ files[Target] = None /\ files'[Target] = f
      /\ \A k \in Kinds, n \in Names : <<k, n>> # Target =>
            files'[<<k, n>>] = files[<<k, n>>]
    BY <1>1, NamesOf DEF TypeOK, Target, Written, Put
<1>3. /\ From(f.entity, f.fields, TRUE) = Model /\ f # None
    <2>1. f.entity = job.entity /\ f.fields = job.fields
        BY DEF From
    <2>2. f \in Origin
        BY <1>1 DEF From, Origin
    <2> QED
        BY <2>1, <2>2, EntitiesAssumption DEF Model
<1>4. \A d \in Entities \ {e}, k \in Kinds : files'[<<k, Lower(d)>>] = files[<<k, Lower(d)>>]
    BY <1>1, <1>2, NamesOf, NamesDiffer DEF Target
<1>5. /\ "routes" \in Kinds /\ "gen" \in Kinds /\ Needed \subseteq Kinds
      /\ Needed \subseteq Written /\ Written \subseteq Kinds
    BY DEF Written, Needed, Kinds
<1>6. pending \subseteq pending'
    BY DEF Put
<1>7. ASSUME NEW d \in Entities, d # e, Complete(d)
      PROVE  Complete(d)'
    BY <1>4, <1>5, <1>6, <1>7 DEF Complete
<1>8. ASSUME Complete(e)
      PROVE  Complete(e)'
    <2>1. CASE Part = "routes"
        <3>1. files'[<<"routes", Lower(e)>>] = f /\ e \in pending'
            BY <1>2, <2>1 DEF Target, Put
        <3>2. ASSUME NEW k \in Needed
              PROVE  files'[<<k, Lower(e)>>] = Model
            <4>1. PICK j \in 1..(job.at - 1) : Generated(job.mem)[j] = k
                <5>1. Generated(job.mem)[job.at] = "routes"
                    BY <1>1, <2>1
                <5> QED
                    BY <1>1, <5>1, Order
            <4>2. files[<<k, Lower(e)>>] = Model
                BY <1>1, <1>5, <4>1 DEF Scaffolding
            <4>3. <<k, Lower(e)>> # Target /\ k \in Kinds
                BY <2>1 DEF Target, Needed
            <4> QED
                BY <1>1, <1>2, <4>2, <4>3, NamesOf
        <3> HIDE DEF f
        <3> QED
            BY <1>3, <3>1, <3>2 DEF Complete
    <2>2. CASE Part # "routes"
        <3>1. files'[<<"routes", Lower(e)>>] = files[<<"routes", Lower(e)>>]
            BY <1>1, <1>2, <1>5, <2>2, NamesOf DEF Target
        <3>2. CASE files[<<"routes", Lower(e)>>] = None
            BY <3>1, <3>2 DEF Complete
        <3>3. CASE files[<<"routes", Lower(e)>>] # None
            <4>1. files[<<"routes", Lower(e)>>] \in Origin
                BY <1>1, <1>5, <3>3, NamesOf DEF TypeOK
            <4>2. Part \notin Needed
                BY <1>2, <1>8, <3>3, <4>1, Rewritten DEF Complete, Target
            <4>3. \A k \in Needed \cup {"gen"} : files'[<<k, Lower(e)>>] = files[<<k, Lower(e)>>]
                BY <1>1, <1>2, <1>5, <4>2, NamesOf DEF Target, Written
            <4> QED
                BY <1>6, <1>8, <3>1, <4>3 DEF Complete
        <3> QED
            BY <3>2, <3>3
    <2> QED
        BY <2>1, <2>2
<1>9. Cleared'
    BY <1>1, <1>4, <1>5 DEF Cleared, Gone, OneWord, TypeOK
<1> QED
    BY <1>7, <1>8, <1>9 DEF Complemented

\* The generator goes on to its next part.
LEMMA GoneOn ==
    ASSUME IInv, Running("scaffold"), Advance, UNCHANGED <<left, cleared>>,
           \/ SameWritten /\ ~File
           \/ Put(TRUE)
    PROVE  Scaffolding'
<1> USE DEF IInv
<1>1. /\ job.entity \in Entities \ cleared /\ job.mem \in WithMemory
      /\ Parts = Generated(job.mem) /\ job.at \in 1..Len(Parts)
      /\ Part = Parts[job.at] /\ (File <=> Part \in Written) /\ Model \in Origin
      /\ job.fields \in Models
    BY AtPart
<1> DEFINE parts == Generated(job.mem)
<1>2. /\ job'.entity = job.entity /\ job'.fields = job.fields /\ job'.mem = job.mem
      /\ job'.found = job.found /\ job'.cmd = job.cmd /\ job'.at = job.at + 1
    BY DEF Advance, TypeOK
<1>3. parts' = parts /\ Model' = Model
    BY <1>2 DEF Model
<1>4. CASE ~Running("scaffold")'
    BY <1>4 DEF Scaffolding
<1>5. CASE Running("scaffold")'
    <2>1. job.at # Len(parts)
        BY <1>1, <1>5 DEF Advance, Running, TypeOK
    <2>2. job.at + 1 \in 1..Len(parts)
        BY <1>1, <2>1
    <2>3. Put(TRUE) => files' = [files EXCEPT ![Target] = Model]
        BY DEF Put, Model
    <2>4. ASSUME NEW i \in 1..Len(parts), parts[i] \in Written, i # job.at
          PROVE  files'[<<parts[i], Lower(job.entity)>>] = files[<<parts[i], Lower(job.entity)>>]
        <3>1. parts[i] # Part
            BY <1>1, <2>4, Order
        <3> QED
            BY <1>1, <2>3, <2>4, <3>1, NamesOf DEF SameWritten, Target, TypeOK, Written
    <2>5. ASSUME NEW i \in 1..job.at, parts[i] \in Written
          PROVE  files'[<<parts[i], Lower(job.entity)>>] = Model
        <3>1. CASE i = job.at
            BY <1>1, <2>3, <2>5, <3>1, NamesOf DEF Target, TypeOK, Written
        <3>2. CASE i # job.at
            <4>1. i \in 1..(job.at - 1) /\ i \in 1..Len(parts)
                BY <1>1, <3>2
            <4> QED
                BY <1>1, <2>4, <2>5, <3>2, <4>1 DEF Scaffolding
        <3> QED
            BY <3>1, <3>2
    <2>6. ASSUME NEW i \in (job.at + 1)..Len(parts), parts[i] \in Written,
                 job.found = "cleared", OneWord(job.entity)
          PROVE  \/ files'[<<parts[i], Lower(job.entity)>>] = None
                 \/ <<parts[i], Lower(job.entity)>> \in left'
        <3>1. i \in job.at..Len(parts) /\ i \in 1..Len(parts) /\ i # job.at
            BY <1>1
        <3>2. Gone(<<parts[i], Lower(job.entity)>>)
            BY <1>1, <2>6, <3>1 DEF Scaffolding
        <3> QED
            BY <2>4, <2>6, <3>1, <3>2 DEF Gone
    <2>7. (job.at + 1) - 1 = job.at
        BY <1>1
    <2> HIDE DEF parts
    <2> QED
        BY <1>1, <1>2, <1>3, <2>2, <2>5, <2>6, <2>7 DEF Scaffolding, OneWord, parts, Gone
<1> QED
    BY <1>4, <1>5

\* One argument of rm: what it names is gone or could not be removed, and no other
\* entity has lost anything a registrar that stays needs.
LEMMA Emptied ==
    ASSUME IInv, Remove, NEW e, e = job.entity
    PROVE  Complemented' /\ Clearing' /\ Cleared'
<1> USE DEF IInv
<1>1. /\ e \in Entities \cup {None} /\ Parts = Removed /\ job.at \in 1..9
      /\ Part = Removed[job.at] /\ Part \in Kinds /\ Len(Removed) = 9
      /\ Doomed \subseteq Kinds \X Names
      /\ e \in Entities => Doomed = {<<Part, Snake(e)>>}
    BY AtRemoval DEF Remove
<1>2. PICK stays \in SUBSET Doomed :
        /\ left' = (left \ Doomed) \cup stays
        /\ files' = [f \in Kinds \X Names |->
                        IF f \in Doomed \ stays THEN None ELSE files[f]]
    BY DEF Remove
<1>3. ASSUME NEW f \in Kinds \X Names, Gone(f) \/ f \in Doomed
      PROVE  Gone(f)'
    BY <1>2, <1>3 DEF Gone
<1>4. ASSUME NEW d \in Entities, d \notin bare'
      PROVE  Complete(d)'
    <2>1. CASE files'[<<"routes", Lower(d)>>] = None
        BY <2>1 DEF Complete
    <2>2. CASE files'[<<"routes", Lower(d)>>] # None
        <3>1. /\ d \notin bare
              /\ \A k \in Kinds : files'[<<k, Lower(d)>>] = files[<<k, Lower(d)>>]
            BY <1>4, <2>2 DEF Remove
        <3>2. d \in pending => d \in pending'
            BY <2>2 DEF Remove
        <3>3. "routes" \in Kinds /\ "gen" \in Kinds /\ Needed \subseteq Kinds
            BY DEF Needed, Kinds
        <3> QED
            BY <3>1, <3>2, <3>3 DEF Complemented, Complete
    <2> QED
        BY <2>1, <2>2
<1>5. ASSUME e \in Entities, NEW i \in 1..job.at
      PROVE  Gone(<<Removed[i], Snake(e)>>)'
    <2>1. <<Removed[i], Snake(e)>> \in Kinds \X Names
        BY <1>1, <1>5, Removals, NamesOf
    <2>2. CASE i = job.at
        BY <1>1, <1>3, <1>5, <2>1, <2>2
    <2>3. CASE i # job.at
        <3>1. i \in 1..(job.at - 1)
            BY <1>1, <2>3
        <3>2. Gone(<<Removed[i], Snake(e)>>)
            BY <1>5, <3>1 DEF Clearing, Remove
        <3> QED
            BY <1>3, <2>1, <3>2
    <2> QED
        BY <2>2, <2>3
<1>6. Cleared'
    <2>1. ASSUME NEW d \in cleared', OneWord(d), NEW k \in Written
          PROVE  Gone(<<k, Lower(d)>>)'
        <3>1. d \in Entities /\ k \in Kinds
            BY <1>1 DEF Remove, TypeOK, Written
        <3>2. <<k, Lower(d)>> \in Kinds \X Names
            BY <3>1, NamesOf
        <3>3. CASE d \in cleared
            BY <1>3, <2>1, <3>2, <3>3 DEF Cleared
        <3>4. CASE d \notin cleared
            <4>1. d = e /\ job.at = 9
                BY <1>1, <2>1, <3>4 DEF Remove
            <4>2. PICK i \in 1..9 : Removed[i] = k
                BY <3>1, Removals
            <4> QED
                BY <1>5, <2>1, <3>1, <4>1, <4>2 DEF OneWord
        <3> QED
            BY <3>3, <3>4
    <2> QED
        BY <2>1 DEF Cleared, OneWord
<1>7. Clearing'
    <2>1. /\ job'.entity = e /\ job'.cmd = "clear" /\ job'.at = job.at + 1
          /\ job'.end = IF job.at = 9 THEN "ok" ELSE "running"
        BY <1>1 DEF Remove, Advance, Running, TypeOK
    <2>2. CASE job.at = 9
        BY <2>1, <2>2 DEF Clearing, Running
    <2>3. CASE job.at # 9
        <3>1. job.at + 1 \in 1..9 /\ (job.at + 1) - 1 = job.at
            BY <1>1, <2>3
        <3> QED
            BY <1>1, <1>5, <2>1, <3>1 DEF Clearing, Gone
    <2> QED
        BY <2>2, <2>3
<1> QED
    BY <1>4, <1>6, <1>7 DEF Complemented

------------------------------------------------------------------------------
LEMMA InvInit == Init => IInv
<1> SUFFICES ASSUME Init
             PROVE  IInv
    OBVIOUS
<1>1. job \in Jobs
    BY JobTyped DEF Init, NoJob, Ends, WithMemory
<1>2. TypeOK
    BY <1>1, EntitiesAssumption DEF Init, TypeOK, Jobs, Ends
<1>3. \A e \in Entities : Complete(e)
    BY NamesOf DEF Complete, Init, Kinds
<1> QED
    BY <1>2, <1>3 DEF Init, NoJob, IInv, Complemented, Scaffolding, Clearing, Cleared,
                      Running, RetryAfterClear

\* A step after which no command is at work, nor stopped at a file.
LEMMA Ended ==
    ASSUME TypeOK', Complemented', Cleared', job' = Failed
    PROVE  IInv'
BY FailedTyped DEF IInv, Scaffolding, Clearing, Running, RetryAfterClear

LEMMA InvPreserved == IInv /\ [Next]_vars => IInv'
<1> SUFFICES ASSUME IInv, [Next]_vars
             PROVE  IInv'
    OBVIOUS
<1>0. TypeOK'
    BY TypesPreserved DEF IInv
<1>1. ASSUME NEW e \in Entities, NEW fs \in FieldLists, NEW mem \in WithMemory,
             Generate(e, fs, mem)
      PROVE  IInv'
    <2>1. Complemented' /\ Cleared'
        BY <1>1, Untouched DEF Generate
    <2>2. CASE Accepted(fs)
        <3>1. /\ job'.cmd = "scaffold" /\ job'.end = "running" /\ job'.entity = e
              /\ job'.fields = fs /\ job'.mem = mem /\ job'.at = 1
              /\ job'.found = IF e \in cleared THEN "cleared" ELSE "anything"
              /\ UNCHANGED <<files, left>> /\ cleared' = cleared \ {e}
            BY <1>1, <2>2 DEF Generate
        <3>2. fs \in Models /\ 1 \in 1..Len(Generated(mem)) /\ 1..(1 - 1) = {}
            BY <2>2, Order DEF Models
        <3>3. job'.found = "cleared" /\ OneWord(e) =>
                \A k \in Written : Gone(<<k, Lower(e)>>)'
            BY <3>1 DEF IInv, Cleared, Gone
        <3>4. Scaffolding'
            BY <3>1, <3>2, <3>3 DEF Scaffolding, OneWord, Gone
        <3> QED
            BY <1>0, <2>1, <3>1, <3>4 DEF IInv, Clearing, Running, RetryAfterClear
    <2>3. CASE ~Accepted(fs)
        BY <1>0, <1>1, <2>1, <2>3, Ended DEF Generate
    <2> QED
        BY <2>2, <2>3
<1>2. ASSUME NEW e \in Entities \cup {None}, Clear(e)
      PROVE  IInv'
    <2>1. /\ job'.cmd = "clear" /\ job'.end = "running" /\ job'.at = 1
          /\ UNCHANGED <<files, cleared, left, bare, pending>>
        BY <1>2 DEF Clear, NoJob, history
    <2>2. Complemented' /\ Cleared'
        BY <2>1, Untouched
    <2>3. Clearing'
        BY <2>1, Removals, 1..(1 - 1) = {} DEF Clearing
    <2> QED
        BY <1>0, <2>1, <2>2, <2>3 DEF IInv, Scaffolding, Running, RetryAfterClear
<1>3. ASSUME Running("scaffold"), job'.cmd = job.cmd, job'.end # "exists",
             Scaffolding', Complemented', Cleared'
      PROVE  IInv'
    BY <1>0, <1>3 DEF IInv, Clearing, Running, RetryAfterClear
<1>4. ASSUME Advance, Running("scaffold") \/ Running("clear")
      PROVE  job'.cmd = job.cmd /\ job'.end # "exists"
    BY <1>4 DEF Advance, Running, IInv, TypeOK
<1>5. CASE Write
    BY <1>3, <1>4, <1>5, Filled, GoneOn DEF Write
<1>6. CASE Exists
    <2>1. /\ job'.cmd = "scaffold" /\ job'.end = "exists" /\ job'.entity = job.entity
          /\ job'.found = job.found /\ UNCHANGED <<files, cleared, left, bare, pending>>
          /\ Target' = Target
        BY <1>6 DEF Exists, Running, IInv, TypeOK, history, Target, Part, Parts
    <2>2. job.found = "cleared" /\ OneWord(job.entity) => Target \in left
        <3>1. /\ job.at \in 1..Len(Generated(job.mem)) /\ Part = Generated(job.mem)[job.at]
              /\ Part \in Written
            BY <1>6, AtPart DEF Exists, IInv
        <3>2. job.at \in job.at..Len(Generated(job.mem))
            BY <3>1
        <3> QED
            BY <1>6, <3>1, <3>2 DEF Exists, IInv, Scaffolding, Target, Gone
    <2>3. Complemented' /\ Cleared'
        BY <2>1, Untouched
    <2> QED
        BY <1>0, <2>1, <2>2, <2>3
           DEF IInv, Scaffolding, Clearing, Running, RetryAfterClear, OneWord
<1>7. CASE AddTable
    <2>1. /\ UNCHANGED <<files, cleared, left, bare, pending>> /\ SameWritten /\ ~File
        BY <1>7 DEF AddTable, history, SameWritten, File
    <2> QED
        BY <1>3, <1>4, <1>7, <2>1, Untouched, GoneOn DEF AddTable
<1>8. CASE Protogen
    <2>1. ~File /\ UNCHANGED <<left, bare, cleared>>
        BY <1>8 DEF Protogen, File
    <2>2. CASE files' = Compiled(Protos, {}) /\ Advance
        <3>1. SameWritten /\ Complemented' /\ Cleared'
            BY <2>1, <2>2, CodeMade
        <3> QED
            BY <1>3, <1>4, <1>8, <2>1, <2>2, <3>1, GoneOn DEF Protogen
    <2>3. CASE job' = Failed /\ UNCHANGED <<files, pending>>
        BY <1>0, <2>1, <2>3, Untouched, Ended
    <2> QED
        BY <1>8, <2>2, <2>3 DEF Protogen
<1>9. CASE Format
    <2>1. /\ UNCHANGED <<files, cleared, left, bare, pending>> /\ SameWritten /\ ~File
        BY <1>9 DEF Format, history, SameWritten, File
    <2>2. CASE Advance
        BY <1>3, <1>4, <1>9, <2>1, <2>2, Untouched, GoneOn DEF Format
    <2>3. CASE job' = Failed
        BY <1>0, <2>1, <2>3, Untouched, Ended
    <2> QED
        BY <1>9, <2>2, <2>3 DEF Format
<1>10. CASE Stop
    <2>1. job' = Failed /\ Running("scaffold") /\ UNCHANGED <<left, bare, cleared>>
        BY <1>10 DEF Stop
    <2>2. CASE UNCHANGED <<files, pending>>
        BY <1>0, <2>1, <2>2, Untouched, Ended
    <2>3. CASE Put(FALSE)
        BY <1>0, <2>1, <2>3, Filled, Ended
    <2>4. ASSUME NEW N \in SUBSET Protos, NEW cut \in SUBSET N,
                 files' = Compiled(N, cut),
                 pending' = pending \cup {e \in Entities : Lower(e) \in cut}
          PROVE  IInv'
        BY <1>0, <2>1, <2>4, CodeMade, Ended
    <2> QED
        BY <1>10, <2>2, <2>3, <2>4 DEF Stop
<1>11. CASE Remove
    <2>1. job'.cmd = "clear" /\ job'.end # "exists"
        BY <1>4, <1>11 DEF Remove, Running
    <2> QED
        BY <1>0, <1>11, <2>1, Emptied DEF IInv, Scaffolding, Running, RetryAfterClear
<1>12. CASE Kill
    BY <1>0, <1>12, Untouched, Ended DEF Kill, history
<1>13. CASE UNCHANGED vars
    BY <1>0, <1>13 DEF vars, history, IInv, Complemented, Complete, OneWord, Scaffolding,
                       Clearing, Cleared, Gone, Running, Model, RetryAfterClear, Target,
                       Part, Parts
<1> QED
    BY <1>1, <1>2, <1>5, <1>6, <1>7, <1>8, <1>9, <1>10, <1>11, <1>12, <1>13 DEF Next

LEMMA Invariance == Spec => []IInv
BY InvInit, InvPreserved, PTL DEF Spec

\* Files and tables are made from entities and field lists the generator accepts.
THEOREM TypeCorrect == Spec => []TypeOK
<1>1. IInv => TypeOK
    BY DEF IInv
<1> QED
    BY <1>1, Invariance, PTL

\* A registrar is only there with its service, from one model, and with the code
\* they import once buf has ended well; unless rm took another file of its entity
\* and left the registrar.  This is so however often the generator, the code
\* generation and rm fail or are stopped, for any number of entities.
THEOREM RoutesAreComplete == Spec => []RoutesComplete
<1>1. IInv => RoutesComplete
    <2>1. SUFFICES ASSUME IInv, NEW e \in Entities \ bare,
                          files[<<"routes", Lower(e)>>] # None,
                          NEW k \in Kinds \ ({"routes", "repo-mem"} \cup
                                              IF e \in pending THEN {"gen"} ELSE {})
                   PROVE  LET made == files[<<"routes", Lower(e)>>]
                          IN  files[<<k, Lower(e)>>] = From(made.entity, made.fields, TRUE)
        BY DEF RoutesComplete
    <2>2. k \in Needed \/ (k = "gen" /\ e \notin pending)
        BY DEF Needed
    <2> QED
        BY <2>1, <2>2 DEF IInv, Complemented, Complete
<1> QED
    BY <1>1, Invariance, PTL

\* After a clear of an entity of one word that went to its end, the generator
\* stops at no file but one rm could not remove.
THEOREM RetriesWork == Spec => []RetryAfterClear
<1>1. IInv => RetryAfterClear
    BY DEF IInv
<1> QED
    BY <1>1, Invariance, PTL

------------------------------------------------------------------------------
\* What make scaffold leaves behind when it ends well, and before go fmt.
Generation ==
    /\ job.cmd = "scaffold"
    /\ \/ job.end = "ok"
       \/ job.end = "running" /\ job.at = Len(Generated(job.mem))
    => /\ job.entity \in Entities /\ Model \in Origin
       /\ files[<<"gen", Lower(job.entity)>>] = Model

\* main writes the proto first, the code generation reads it last.
LEMMA ProtoThere ==
    ASSUME IInv, Running("scaffold"), Part = "gen"
    PROVE  files[<<"proto", Lower(job.entity)>>] = Model
<1>1. /\ job.mem \in WithMemory /\ job.at = Len(Generated(job.mem)) - 1
    BY AtPart DEF IInv
<1>2. Generated(job.mem)[1] = "proto"
    BY <1>1 DEF WithMemory, Generated
<1>3. 1 \in 1..(job.at - 1)
    <2>1. Len(Generated(job.mem)) \in {10, 11}
        BY <1>1, Order, Zenon
    <2>2. Len(Generated(job.mem)) - 1 \in {9, 10}
        BY <2>1
    <2>3. job.at \in {9, 10}
        BY <1>1, <2>2
    <2> QED
        BY <2>3
<1>4. "proto" \in Written
    BY DEF Written, Kinds
<1> QED
    BY <1>2, <1>3, <1>4 DEF IInv, Scaffolding

LEMMA GenerationPreserved ==
    ASSUME IInv, Generation, [Next]_vars
    PROVE  Generation'
<1>1. CASE UNCHANGED vars
    BY <1>1 DEF vars, Generation, Model
<1>2. ASSUME NEW e \in Entities, NEW fs \in FieldLists, NEW mem \in WithMemory,
             Generate(e, fs, mem)
      PROVE  Generation'
    <2>1. \/ job'.end = "failed"
          \/ job'.end = "running" /\ job'.at = 1 /\ job'.mem = mem
        BY <1>2, FailedTyped DEF Generate
    <2>2. Len(Generated(mem)) # 1
        BY Order
    <2> QED
        BY <2>1, <2>2 DEF Generation
<1>3. ASSUME NEW e \in Entities \cup {None}, Clear(e)
      PROVE  Generation'
    BY <1>3 DEF Clear, NoJob, Generation
<1>4. ASSUME Running("scaffold"), Part # "gen", Part # "fmt", Advance
      PROVE  Generation'
    <2>1. /\ Parts = Generated(job.mem) /\ job.at \in 1..Len(Parts)
          /\ job.at # Len(Parts) /\ job.at + 1 # Len(Parts)
        BY <1>4, AtPart DEF IInv
    <2>2. job'.end = "running" /\ job'.at = job.at + 1 /\ job'.mem = job.mem
        BY <1>4, <2>1 DEF IInv, TypeOK, Advance, Running
    <2> QED
        BY <2>1, <2>2 DEF Generation
<1>5. CASE Write
    BY <1>4, <1>5 DEF Write, Put, File
<1>6. CASE AddTable
    BY <1>4, <1>6 DEF AddTable
<1>7. ASSUME job' = Failed \/ job' = [job EXCEPT !.end = "exists"]
      PROVE  Generation'
    BY <1>7, FailedTyped DEF Generation, IInv, TypeOK
<1>8. CASE Exists \/ Stop \/ Kill
    BY <1>7, <1>8 DEF Exists, Stop, Kill
<1>9. CASE Remove
    <2>1. job'.cmd = "clear"
        BY <1>9 DEF Remove, Running, Advance, IInv, TypeOK
    <2> QED
        BY <2>1 DEF Generation
<1>10. CASE Protogen
    <2>1. CASE Advance /\ files' = Compiled(Protos, {})
        <3> DEFINE n == Lower(job.entity)
        <3>1. job.entity \in Entities /\ Model \in Origin
            BY <1>10, AtPart DEF Protogen, IInv
        <3>2. files[<<"proto", n>>] = Model
            BY <1>10, ProtoThere DEF Protogen
        <3>3. n \in Protos
            BY <3>1, <3>2, NamesOf, EntitiesAssumption DEF Protos
        <3>4. <<"gen", n>> \in Kinds \X Names
            BY <3>1, NamesOf DEF Kinds
        <3>5. files'[<<"gen", n>>] = From(Model.entity, Model.fields, TRUE)
            BY <2>1, <3>2, <3>3, <3>4 DEF Compiled
        <3>6. From(Model.entity, Model.fields, TRUE) = Model
            BY DEF Model, From
        <3>7. job'.entity = job.entity /\ Model' = Model
            BY <2>1 DEF Advance, IInv, TypeOK, Model
        <3> QED
            BY <3>1, <3>5, <3>6, <3>7 DEF Generation
    <2>2. CASE job' = Failed
        BY <1>7, <2>2
    <2> QED
        BY <1>10, <2>1, <2>2 DEF Protogen
<1>11. CASE Format
    <2>1. CASE Advance
        <3>1. /\ Running("scaffold") /\ job.at = Len(Generated(job.mem))
              /\ job.entity \in Entities /\ Model \in Origin
            BY <1>11, AtPart DEF Format, IInv
        <3>2. files[<<"gen", Lower(job.entity)>>] = Model
            BY <3>1 DEF Generation, Running
        <3>3. job'.entity = job.entity /\ Model' = Model /\ files' = files
            BY <1>11, <2>1 DEF Format, Advance, IInv, TypeOK, Model
        <3> QED
            BY <3>1, <3>2, <3>3 DEF Generation
    <2>2. CASE job' = Failed
        BY <1>7, <2>2
    <2> QED
        BY <1>11, <2>1, <2>2 DEF Format
<1> QED
    BY <1>1, <1>2, <1>3, <1>5, <1>6, <1>8, <1>9, <1>10, <1>11 DEF Next

\* The generated code is where what imports it looks, if and only if the two
\* spellings of the entity's name agree.
LEMMA Found ==
    ASSUME IInv, Generation, job.cmd = "scaffold", job.end = "ok"
    PROVE  ImportsResolve <=> OneWord(job.entity)
<1> DEFINE n == Lower(job.entity)
<1>1. /\ job.entity \in Entities /\ n \in Names
      /\ files[<<"gen", n>>] = Model
    BY NamesOf DEF Generation
<1>2. Model # None /\ Model.entity = job.entity
    BY EntitiesAssumption DEF Generation, Model, From
<1>3. n \in {m \in Names : files["gen", m] # None}
    BY <1>1, <1>2
<1>4. CASE OneWord(job.entity)
    <2>1. <<n, <<>>>> \in Exported /\ <<n, Snake(files["gen", n].entity)>> \in Exported
        BY <1>3 DEF Exported
    <2>2. Imported(job.entity) \subseteq Exported
        BY <1>1, <1>2, <1>4, <2>1 DEF Imported, OneWord
    <2> QED
        BY <1>1, <1>4, <2>2 DEF ImportsResolve
<1>5. CASE ~OneWord(job.entity)
    <2>1. <<n, n>> \notin Exported
        <3>1. SUFFICES ASSUME <<n, n>> \in Exported
                       PROVE  FALSE
            OBVIOUS
        <3>2. PICK m \in Names : <<n, n>> \in {<<m, <<>>>>, <<m, Snake(files["gen", m].entity)>>}
            BY <3>1 DEF Exported
        <3>3. n # <<>>
            BY <1>1, NamesDiffer
        <3>4. m = n /\ n = Snake(files["gen", m].entity)
            BY <3>2, <3>3
        <3>5. n = Snake(job.entity)
            BY <1>1, <1>2, <3>4
        <3> QED
            BY <1>5, <3>5 DEF OneWord
    <2>2. <<n, n>> \in Imported(job.entity)
        BY DEF Imported
    <2>3. ~ImportsResolve
        BY <2>1, <2>2 DEF ImportsResolve
    <2> QED
        BY <1>5, <2>3
<1> QED
    BY <1>4, <1>5

\* After make scaffold the packages of generated code its files import exist and
\* were generated from its own proto, whatever else was generated, stopped or
\* removed before, if and only if the entity's name is of one word.  Of several,
\* BlogPost as well as any other, they never do, and the server cannot be built.
THEOREM OneWordImports ==
    Spec => [](job.cmd = "scaffold" /\ job.end = "ok" =>
                   (ImportsResolve <=> Len(job.entity) = 1))
<1>1. Init => Generation
    BY DEF Init, NoJob, Generation
<1>2. IInv /\ Generation /\ [Next]_vars => Generation'
    BY GenerationPreserved
<1>3. IInv /\ Generation =>
        (job.cmd = "scaffold" /\ job.end = "ok" =>
            (ImportsResolve <=> Len(job.entity) = 1))
    BY Found, NamesDiffer DEF Generation
<1> QED
    BY <1>1, <1>2, <1>3, Invariance, PTL DEF Spec
===============================================================================
