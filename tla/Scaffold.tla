------------------------------- MODULE Scaffold -------------------------------
(***************************************************************************)
(* The scaffold generator (cmd/scaffold/main.go), the code generation and  *)
(* the go fmt that make scaffold runs after it, and the removal of what    *)
(* was written (the targets scaffold-clean and clear of the Makefile),     *)
(* over the files of the repository and db/schema.sql.                     *)
(*                                                                         *)
(* Each goes through a list of parts, one at a time, and may stop          *)
(* anywhere: the generator at the first file that exists or cannot be      *)
(* written, all of them when they are killed.  Nothing undoes what was     *)
(* done before.  rm goes on when a file cannot be removed, and the Makefile *)
(* does not look at its result.                                            *)
(***************************************************************************)
EXTENDS ScaffoldNames, FiniteSets

CONSTANTS
    Entities,     \* names in PascalCase, as their words
    FieldLists,   \* values of -fields
    None,         \* no file, no table
    Extends,      \* Extends[t]: the tables whose name begins with t's, t included
    MaxFaults     \* bound: commands stopped, and files rm fails to remove

Names == {Lower(e) : e \in Entities} \cup {Snake(e) : e \in Entities}
Tables == {Table(e) : e \in Entities}
Kinds == {"proto", "domain", "usecase", "handler", "domain-repo",
          "repo-mem", "repo-mysql", "routes", "gen"}

Models == {fs \in FieldLists : Accepted(fs)}

\* What a file or a table is made from, and whether its write was completed.
Origin == [entity : Entities, fields : Models, whole : BOOLEAN]

\* isPascal: a name has a word.  The mark of lowerCamel is no word.
ASSUME EntitiesAssumption ==
    /\ Entities \subseteq Seq(STRING) \ {<<>>} /\ IsFiniteSet(Entities)
    /\ \A e \in Entities : e[1] # "camel"
    /\ \A e \in Entities : Table(e) \in Extends[Table(e)]
    /\ None \notin Origin \cup Entities
    /\ MaxFaults \in Nat

VARIABLES
    files,    \* files[k, n]: what file k of the name n is made from, or None
    schema,   \* schema[t]: what the CREATE TABLE of t is made from
    job,      \* the command that runs, or the last one
    faults,   \* how often a command was stopped, or rm failed on a file
    cleared,  \* history: entities cleared to the end, and not scaffolded since
    left,     \* history: files that are there since rm could not remove them
    bare,     \* history: entities whose registrar has stayed when rm removed
              \* another of their files
    pending   \* history: entities whose registrar was written, or their code in
              \* part, since buf last ended well

history == <<cleared, left, bare, pending>>
vars == <<files, schema, job, faults, history>>

NoJob == [cmd |-> "none", entity |-> None, fields |-> None, mem |-> <<>>,
          at |-> 1, end |-> "ok", found |-> "anything"]
Failed == [NoJob EXCEPT !.end = "failed"]

\* -with-memory: the kinds written on request.
WithMemory == {<<>>, <<"repo-mem">>}

\* Mistake: the registrar is written before what it registers.
GeneratedRoutesFirst(mem) ==
    <<"routes", "proto", "domain", "usecase", "handler", "domain-repo">>
    \o mem
    \o <<"repo-mysql", "schema", "gen", "fmt">>

\* Mistake: make scaffold leaves the code generation to another command.
GeneratedWithoutGen(mem) ==
    <<"proto", "domain", "usecase", "handler", "domain-repo">>
    \o mem
    \o <<"repo-mysql", "schema", "routes", "fmt">>

\* The parts in the order of main, then make protogen and go fmt.
Generated(mem) ==
    <<"proto", "domain", "usecase", "handler", "domain-repo">>
    \o mem
    \o <<"repo-mysql", "schema", "routes", "gen", "fmt">>

\* Mistake: the in-memory repository is forgotten.
RemovedKeepingMemory ==
    <<"proto", "gen", "domain", "domain-repo", "usecase", "handler", "routes",
      "repo-mysql">>

\* The arguments of rm in their order.
Removed ==
    <<"proto", "gen", "domain", "domain-repo", "usecase", "handler", "routes",
      "repo-mem", "repo-mysql">>

Parts == IF job.cmd = "scaffold" THEN Generated(job.mem) ELSE Removed

Running(cmd) == job.cmd = cmd /\ job.end = "running"

Part == Parts[job.at]
Target == <<Part, Lower(job.entity)>>
File == Part \notin {"schema", "gen", "fmt"}
From(e, fs, whole) == [entity |-> e, fields |-> fs, whole |-> whole]
Model == From(job.entity, job.fields, TRUE)

------------------------------------------------------------------------------
Init ==
    /\ files = [f \in Kinds \X Names |-> None]
    /\ schema = [t \in Tables |-> None]
    /\ job = NoJob
    /\ faults = 0
    /\ cleared = {}
    /\ left = {}
    /\ bare = {}
    /\ pending = {}

\* make scaffold.  A field list parseFields refuses ends it at once.
Generate(e, fs, mem) ==
    /\ job.end # "running"
    /\ job' = IF Accepted(fs)
              THEN [cmd |-> "scaffold", entity |-> e, fields |-> fs, mem |-> mem,
                    at |-> 1, end |-> "running",
                    found |-> IF e \in cleared THEN "cleared" ELSE "anything"]
              ELSE Failed
    /\ cleared' = IF Accepted(fs) THEN cleared \ {e} ELSE cleared
    /\ UNCHANGED <<files, schema, faults, left, bare, pending>>

Fault(n) ==
    /\ faults + n <= MaxFaults
    /\ faults' = faults + n

Advance ==
    job' = [job EXCEPT !.at = @ + 1,
                       !.end = IF job.at = Len(Parts) THEN "ok" ELSE @]

\* The file is made; with the registrar, the server is to serve the entity.
Put(whole) ==
    /\ File
    /\ files[Target] = None
    /\ files' = [files EXCEPT ![Target] = From(job.entity, job.fields, whole)]
    /\ pending' = IF Part = "routes" THEN pending \cup {job.entity} ELSE pending

\* writeFromTemplate: os.Stat finds nothing there, os.WriteFile.
Write ==
    /\ Running("scaffold")
    /\ Put(TRUE)
    /\ Advance
    /\ UNCHANGED <<schema, faults, cleared, left, bare>>

\* writeFromTemplate: "already exists", whatever is in the file.
Exists ==
    /\ Running("scaffold")
    /\ File
    /\ files[Target] # None
    /\ job' = [job EXCEPT !.end = "exists"]
    /\ UNCHANGED <<files, schema, faults, history>>

\* strings.Contains(content, "CREATE TABLE " + m.Table)
Declared(t) == \E u \in Extends[t] \cap Tables : schema[u] # None

\* Mistake: the table is not given its name.
AddTableUnnamed ==
    /\ Running("scaffold")
    /\ Part = "schema"
    /\ schema' = [schema EXCEPT ![Table(job.entity)] = From(None, job.fields, TRUE)]
    /\ Advance
    /\ UNCHANGED <<files, faults, history>>

\* ensureSchemaSQL.
AddTable ==
    /\ Running("scaffold")
    /\ Part = "schema"
    /\ schema' = IF Declared(Table(job.entity)) THEN schema
                 ELSE [schema EXCEPT ![Table(job.entity)] = Model]
    /\ Advance
    /\ UNCHANGED <<files, faults, history>>

\* os.WriteFile empties db/schema.sql before it writes the tables there were and
\* the new one: those in kept are written, the one in cut in part.
CutTables(kept, cut) ==
    schema' = [t \in Tables |->
                LET made == IF t = Table(job.entity) THEN Model ELSE schema[t]
                IN  IF t \notin kept \/ made = None THEN None
                    ELSE IF t \in cut THEN From(made.entity, made.fields, FALSE) ELSE made]

\* What buf makes of every proto in N: code in the directory of the proto, which
\* is incomplete in those of cut.
Compiled(N, cut) ==
    [f \in Kinds \X Names |->
        IF f[1] = "gen" /\ f[2] \in N
        THEN LET proto == files["proto", f[2]]
             IN  From(proto.entity, proto.fields, f[2] \notin cut)
        ELSE files[f]]

Protos == {n \in Names : files["proto", n] # None}

\* buf compiles all the protos there are, or none of them when one does not parse.
Compiles == \A n \in Protos : files["proto", n].whole /\ Parses(files["proto", n].fields)

\* make protogen
Protogen ==
    /\ Running("scaffold")
    /\ Part = "gen"
    /\ IF Compiles
       THEN files' = Compiled(Protos, {}) /\ Advance /\ pending' = {}
       ELSE job' = Failed /\ UNCHANGED <<files, pending>>
    /\ UNCHANGED <<schema, faults, cleared, left, bare>>

\* Some Go file is incomplete, of whatever entity.
GoFileCut ==
    \E f \in (Kinds \ {"proto"}) \X Names : files[f] # None /\ ~files[f].whole

\* go fmt ./... fails on a file that does not parse; an incomplete one may parse.
Format ==
    /\ Running("scaffold")
    /\ Part = "fmt"
    /\ \/ Advance
       \/ GoFileCut /\ job' = Failed
    /\ UNCHANGED <<files, schema, faults, history>>

\* An error of the file system, or a kill: what is being written is left
\* incomplete, or not begun.
Stop ==
    /\ Running("scaffold")
    /\ Fault(1)
    /\ job' = Failed
    /\ \/ UNCHANGED <<files, schema, pending>>
       \/ Put(FALSE) /\ UNCHANGED schema
       \/ /\ Part = "schema" /\ ~Declared(Table(job.entity))
          /\ \E kept \in SUBSET Tables, cut \in SUBSET Tables :
                Cardinality(cut) <= 1 /\ CutTables(kept, cut)
          /\ UNCHANGED <<files, pending>>
       \/ /\ Part = "gen" /\ Compiles
          /\ \E N \in SUBSET Protos : \E cut \in SUBSET N :
                /\ files' = Compiled(N, cut)
                /\ pending' = pending \cup {e \in Entities : Lower(e) \in cut}
          /\ UNCHANGED schema
    /\ UNCHANGED <<cleared, left, bare>>

\* make clear, or scaffold-clean, starts.
Clear(e) ==
    /\ job.end # "running"
    /\ job' = [NoJob EXCEPT !.cmd = "clear", !.entity = e, !.end = "running"]
    /\ UNCHANGED <<files, schema, faults, history>>

\* What the argument of rm names.  Without a name, which scaffold-clean does not
\* ask for, proto/ and gen/ are the directories of all, and the rest is no file.
Doomed ==
    {Part} \X IF job.entity # None THEN {Snake(job.entity)}
              ELSE IF Part \in {"proto", "gen"} THEN Names ELSE {}

\* One argument of rm -rf.  Files that cannot be removed stay, and rm goes on;
\* the last argument ends the command, well (|| true).  clear then filters
\* db/schema.sql through awk, in a shell of its own, in which the name set on
\* the recipe line before is not set: its patterns match no table.
Remove ==
    /\ Running("clear")
    /\ \E stays \in SUBSET {f \in Doomed : files[f] # None} :
        /\ Fault(Cardinality(stays))
        /\ left' = (left \ Doomed) \cup stays
        /\ files' = [f \in Kinds \X Names |->
                        IF f \in Doomed \ stays THEN None ELSE files[f]]
    /\ bare' = {e \in Entities :
                    /\ files'[<<"routes", Lower(e)>>] # None
                    /\ \/ e \in bare
                       \/ \E k \in Kinds : files'[<<k, Lower(e)>>] # files[<<k, Lower(e)>>]}
    /\ pending' = {e \in pending : files'[<<"routes", Lower(e)>>] # None}
    /\ Advance
    /\ cleared' = IF job.at = Len(Parts) /\ job.entity # None
                  THEN cleared \cup {job.entity} ELSE cleared
    /\ UNCHANGED schema

Kill ==
    /\ Running("clear")
    /\ Fault(1)
    /\ job' = Failed
    /\ UNCHANGED <<files, schema, history>>

Next ==
    \/ \E e \in Entities, fs \in FieldLists, mem \in WithMemory : Generate(e, fs, mem)
    \/ \E e \in Entities \cup {None} : Clear(e)
    \/ Write \/ Exists \/ AddTable \/ Protogen \/ Format \/ Stop
    \/ Remove \/ Kill

Spec == Init /\ [][Next]_vars

------------------------------------------------------------------------------
(* Types: files and tables are made from entities and accepted field lists.  *)
TypeOK ==
    /\ files \in [Kinds \X Names -> Origin \cup {None}]
    /\ schema \in [Tables -> Origin \cup {None}]
    /\ job \in [cmd : {"none", "scaffold", "clear"}, entity : Entities \cup {None},
                fields : Models \cup {None}, mem : WithMemory,
                at : Nat \ {0},
                end : {"running", "ok", "exists", "failed"},
                found : {"cleared", "anything"}]
    /\ faults \in 0..MaxFaults
    /\ cleared \subseteq Entities
    /\ left \subseteq Kinds \X Names
    /\ bare \subseteq Entities
    /\ pending \subseteq Entities

(* The registrar of an entity, whose init makes the server serve it, is     *)
(* only there with every file of the generator it needs, whole and made     *)
(* from the same model, however often the generator was stopped and run     *)
(* again; and with the code it imports, from that model as well, unless     *)
(* buf has not ended well since.  Only rm, which does not take the registrar *)
(* first, leaves one without its service: when it is cut short, when it     *)
(* fails on the registrar, and when scaffold-clean is given no name.        *)
RoutesComplete ==
    \A e \in Entities \ bare :
        LET made == files[<<"routes", Lower(e)>>]
        IN  made # None =>
              \A k \in Kinds \ ({"routes", "repo-mem"} \cup
                                IF e \in pending THEN {"gen"} ELSE {}) :
                  files[k, Lower(e)] = From(made.entity, made.fields, TRUE)

(* After a clear that went to its end, the generator stops at no file that  *)
(* is already there, but for one rm has said it could not remove (entities  *)
(* of one word, whose file names the generator and the Makefile agree on).  *)
RetryAfterClear ==
    job.end = "exists" /\ job.found = "cleared" /\ Lower(job.entity) = Snake(job.entity)
        => Target \in left

\* Packages of generated code, by directory and subdirectory: buf puts the
\* messages into the directory of the proto, and the service into one under it
\* that is named for the package of option go_package.
Exported ==
    UNION {{<<n, <<>>>>, <<n, Snake(files["gen", n].entity)>>} :
            n \in {m \in Names : files["gen", m] # None}}

\* The handler, the registrar, and the service's code, which finds its messages
\* where option go_package says.
Imported(e) ==
    {<<Lower(e), <<>>>>, <<Lower(e), Lower(e)>>, <<Snake(e), <<>>>>}

(* When make scaffold ends well, the packages of generated code its files    *)
(* import exist, and were generated whole from the proto that was written.   *)
ImportsResolve ==
    job.cmd = "scaffold" /\ job.end = "ok" =>
        /\ Imported(job.entity) \subseteq Exported
        /\ files["gen", Lower(job.entity)] = Model

(* clear removes the entity's CREATE TABLE from db/schema.sql.              *)
ClearPrunesSchema ==
    job.cmd = "clear" /\ job.end = "ok" /\ job.entity # None =>
        schema[Table(job.entity)] = None

(* The generator adds the entity's CREATE TABLE to db/schema.sql.           *)
ScaffoldAddsTable ==
    job.cmd = "scaffold" /\ job.end = "ok" => schema[Table(job.entity)] = Model
===============================================================================
