------------------------------ MODULE Generator ------------------------------
(***************************************************************************)
(* tirpc_generator.py: it makes a project from a .proto file, and is run   *)
(* again when the file has changed.  Some files are written every time,    *)
(* the others, which the user edits, only while they do not exist.  A run  *)
(* may be killed at any step, or end because protoc fails.                 *)
(***************************************************************************)
EXTENDS Integers, FiniteSets, SequencesExt

CONSTANTS
    Methods,     \* methods a .proto file may have: a name and its types
    MaxRuns, MaxEdits   \* bounds: runs, and edits of files

ASSUME GeneratorAssumption == IsFiniteSet(Methods)

\* A name is its style ("snake", "upper" or "lower" camel case), its first
\* letter and the rest.
ToCamel(name) == IF name.style = "snake" THEN [name EXCEPT !.style = "upper"] ELSE name

\* A "_" goes before each capital, and the first character away: that is the
\* "_" before the capital a name begins with, or else its first letter.
ToUnderline(name) ==
    LET camel == ToCamel(name) IN
    IF camel.style = "upper" THEN <<camel.head, camel.tail>> ELSE <<camel.tail>>

InterfaceName(method) == ToUnderline(method.name)

\* Files written once, those of an interface, and those written every time.
One(file) == <<file, <<>>>>
Fixed == {One(f) : f \in {"makefile", "conf", "business_exception.h", "main.cc", "interface.h", "interface.cc"}}
Kinds == <<"h", "cc", "test">>
Interfaces == Range(Kinds) \X {InterfaceName(m) : m \in Methods}
Always == {One(f) : f \in {"proto", "pb", "server.h", "server.cc"}}
Files == Fixed \cup Interfaces \cup Always

VARIABLES
    proto,     \* methods of the .proto file
    files,     \* {} or {what is in it}: whether it is whole and edited, and for
               \* which methods it was written
    steps,      \* what is left of the run
    methods,   \* method_list
    finished,  \* the last run came to its end, and nothing has changed since
    torn,      \* files a kill left without their content
    known,     \* methods there were in any run
    runs, edits

generatorVars == <<proto, files, steps, methods, finished, torn, known, runs, edits>>

Protos == {p \in SUBSET Methods : p # {} /\ \A m, n \in p : m.name = n.name => m = n}

GeneratorInit ==
    /\ proto \in Protos
    /\ files = [f \in Files |-> {}]
    /\ steps = <<>> /\ methods = {} /\ finished = FALSE
    /\ torn = {} /\ known = {} /\ runs = 0 /\ edits = 0

Content(for) == [whole |-> TRUE, edited |-> FALSE, for |-> for]
Empty == [whole |-> FALSE, edited |-> FALSE, for |-> {}]

----------------------------------------------------------------------------
\* What is done, in order.
Once(file) == <<"once", One(file)>>
GenException == Once("business_exception.h")
GenServerFile(file) == <<"gen_server", One(file)>>
GenMain == Once("main.cc")
GenInterfaceBase(file) == Once(file)
GenMakefile == Once("makefile")
GenConfFile == Once("conf")
GenFrameworkCode ==
    <<<<"parse", One("pb")>>, GenException, GenServerFile("server.h"), GenServerFile("server.cc"),
      GenMain, GenInterfaceBase("interface.h"), GenInterfaceBase("interface.cc"),
      <<"each", One("interface")>>>>

\* parseInput and generate_tirpc_project.
Run ==
    /\ steps = <<>> /\ runs < MaxRuns
    /\ runs' = runs + 1 /\ finished' = FALSE
    /\ known' = known \cup proto
    /\ steps' = <<<<"copy", One("proto")>>, <<"protoc", One("pb")>>, GenMakefile, GenConfFile>> \o GenFrameworkCode
    /\ UNCHANGED <<proto, files, methods, torn, edits>>

Step(op) == steps # <<>> /\ Head(steps)[1] = op
File == Head(steps)[2]
Continue(more) == steps' = more \o Tail(steps) /\ finished' = (steps' = <<>>)
Unmoved == UNCHANGED <<proto, known, runs, edits>>

WrittenFor(file) == (CHOOSE c \in files[file] : TRUE).for

\* gen_pb_files: the .proto file is copied, and protoc compiles the copy.
CopyProto ==
    /\ Step("copy")
    /\ files' = [files EXCEPT ![One("proto")] = {Content(proto)}]
    /\ Continue(<<>>)
    /\ Unmoved /\ UNCHANGED <<methods, torn>>

Protoc ==
    /\ Step("protoc")
    /\ files' = [files EXCEPT ![One("pb")] = {Content(WrittenFor(One("proto")))}]
    /\ Continue(<<>>)
    /\ Unmoved /\ UNCHANGED <<methods, torn>>

\* The methods are read from the compiled header.
ParseServiceName ==
    /\ Step("parse")
    /\ methods' = WrittenFor(One("pb"))
    /\ Continue(<<>>)
    /\ Unmoved /\ UNCHANGED <<files, torn>>

\* open(.., "w") and close: between them the file is empty.  A file of two
\* methods is written for the first.
Open(file, method) ==
    /\ files' = [files EXCEPT ![file] = {Empty}]
    /\ Continue(<<<<"close", file, method>>>>)

GenServer ==
    /\ Step("gen_server")
    /\ Open(File, methods)
    /\ Unmoved /\ UNCHANGED <<methods, torn>>

\* Mutant: the file is written again when its methods have changed.
GenOnceFresh ==
    /\ Step("once")
    /\ LET for == IF Len(Head(steps)) = 3 THEN Head(steps)[3] ELSE {} IN
       IF \E c \in files[File] : c.for = for THEN Continue(<<>>) /\ UNCHANGED files
       ELSE Open(File, for)
    /\ Unmoved /\ UNCHANGED <<methods, torn>>

\* A file that exists is skipped.
GenOnce ==
    /\ Step("once")
    /\ IF files[File] # {} THEN Continue(<<>>) /\ UNCHANGED files
       ELSE Open(File, IF Len(Head(steps)) = 3 THEN Head(steps)[3] ELSE {})
    /\ Unmoved /\ UNCHANGED <<methods, torn>>

Close ==
    /\ Step("close")
    /\ files' = [files EXCEPT ![File] = {Content(Head(steps)[3])}]
    /\ torn' = torn \ {File}
    /\ Continue(<<>>)
    /\ Unmoved /\ UNCHANGED methods

\* For every method its header, its source and its test client.
EachInterface ==
    /\ Step("each")
    /\ Continue([i \in 1 .. 3 * Cardinality(methods) |->
           LET m == SetToSeq(methods)[(i + 2) \div 3] IN
           <<"once", <<Kinds[1 + ((i + 2) % 3)], InterfaceName(m)>>, {m}>>])
    /\ Unmoved /\ UNCHANGED <<files, methods, torn>>

----------------------------------------------------------------------------
\* The run is killed, or an exception ends it because protoc has failed.
Kill ==
    /\ steps # <<>>
    /\ steps' = <<>> /\ finished' = FALSE
    /\ torn' = IF Step("close") THEN torn \cup {File} ELSE torn
    /\ UNCHANGED <<proto, files, methods, known, runs, edits>>

\* The user edits a file, or the .proto file.
Edit(file) ==
    /\ steps = <<>> /\ edits < MaxEdits /\ edits' = edits + 1
    /\ \E c \in files[file] : files' = [files EXCEPT ![file] = {[c EXCEPT !.edited = TRUE]}]
    /\ UNCHANGED <<proto, steps, methods, finished, torn, known, runs>>

ChangeProto ==
    /\ steps = <<>> /\ runs > 0
    /\ proto' \in Protos \ {proto}
    /\ finished' = FALSE
    /\ UNCHANGED <<files, steps, methods, torn, known, runs, edits>>

GeneratorNext ==
    \/ Run \/ CopyProto \/ Protoc \/ ParseServiceName \/ GenServer \/ GenOnce \/ Close \/ EachInterface \/ Kill
    \/ ChangeProto
    \/ \E file \in Fixed \cup Interfaces : Edit(file)

----------------------------------------------------------------------------
\* After a run the project fits the .proto file: the server has its methods, and
\* each method has its files, written for it, unless there was another method,
\* or the same with other types, whose files have the same name, or a kill left
\* the file empty: an existing file is not looked into.
FitsTheProto ==
    finished =>
        /\ \A file \in Always : files[file] = {Content(proto)}
        /\ \A file \in Fixed \ torn : \E c \in files[file] : c.whole
        /\ \A m \in proto : (\A n \in known : InterfaceName(n) = InterfaceName(m) => n = m) =>
              \A kind \in Range(Kinds) : <<kind, InterfaceName(m)>> \notin torn =>
                  \E c \in files[<<kind, InterfaceName(m)>>] : c.whole /\ c.for = {m}

\* What the user has edited is kept, in every file but those that say that they
\* are overwritten every time.
EditsStay ==
    \A file \in Fixed \cup Interfaces :
        \A c \in files[file] : c.edited => files'[file] = files[file]

\* The project fits the .proto file after every run, and edits stay.
GeneratorSound == [][FitsTheProto' /\ EditsStay]_generatorVars

=============================================================================
