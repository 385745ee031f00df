------------------------------ MODULE DebugInfo ------------------------------
(***************************************************************************)
(* debuginfo_eip() of kern/kdebug.c: which file and function contain an    *)
(* address.  It searches the stabs twice (StabSearch), for the file and    *)
(* then, among that file's stabs, for the function, and walks the table    *)
(* from there to the file's name and over the function's parameters.       *)
(***************************************************************************)
EXTENDS StabSearch, FiniteSets

CONSTANTS
  ULIM,       \* the kernel's addresses begin here
  Tables      \* the tables the linker may have put into the kernel

StabTypes == {"UNDF", "SO", "SOL", "FUN", "PSYM", "LINE"}

Unknown == -1     \* the name "<unknown>"; any other name is the stab that has it

VARIABLES
  phase,          \* "call", "file", "function", "return", "panic"
  eip,            \* the address asked for
  strings_ok,     \* the string table is there and ends with a null
  named,          \* the stabs whose n_strx lies inside the string table
  lfile, rfile,
  info,           \* *info: [file, fn_name, fn_addr, fn_narg]
  result          \* the return value

given == <<stabs, eip, strings_ok, named>>
search == <<arg, region_left, region_right, l, r, any_matches, addr, pc>>
vars == <<given, search, phase, lfile, rfile, info, result>>

Type(k) == stabs[k].n_type

\* In increasing order of address, as kern/kdebug.c:16 has it; two files or two
\* functions that do not begin at the same address are at least two bytes apart.
Ascending(t, type) ==
  \A j, k \in Index :
    j < k /\ t[j].n_type = type /\ t[k].n_type = type =>
      t[k].n_value = t[j].n_value \/ t[k].n_value > t[j].n_value + 1

\* Tables as the compiler and linker make them: a header first, files and
\* functions of the kernel (not at the last address), and a function's
\* parameters behind it and before its lines.
WellFormed(t) ==
  /\ t \in [Index -> [n_type : Types, n_value : Addresses]]
  /\ t[0].n_type = "UNDF"
  /\ \A k \in Index : t[k].n_type \in {"SO", "FUN"} => t[k].n_value \in ULIM .. AddrSpace - 2
  /\ Ascending(t, "SO") /\ Ascending(t, "FUN")
  /\ \A k \in Index :
       t[k].n_type = "PSYM" =>
         /\ t[k - 1].n_type \in {"FUN", "PSYM"}
         /\ k + 1 \in Index /\ t[k + 1].n_type \notin {"FUN", "SO"}

ASSUME TablesAssumption ==
  /\ NumStabs > 0 /\ ULIM \in 1 .. AddrSpace - 1
  /\ StabTypes \subseteq Types
  /\ \A t \in Tables : WellFormed(t)

-----------------------------------------------------------------------------
Init ==
  /\ stabs \in Tables
  /\ eip \in Addresses
  /\ strings_ok \in BOOLEAN
  /\ named \in {Index} \cup {Index \ {k} : k \in Index}
  /\ phase = "call"
  /\ info = [file |-> Unknown, fn_name |-> Unknown, fn_addr |-> eip, fn_narg |-> 0]
  /\ lfile = 0 /\ rfile = NumStabs - 1 /\ result = 0
  /\ arg = [left |-> 0, right |-> NumStabs - 1, type |-> "SO", addr |-> eip]
  /\ region_left = 0 /\ region_right = NumStabs - 1
  /\ l = 0 /\ r = NumStabs - 1
  /\ any_matches = FALSE /\ addr = eip /\ pc = "done"

StartSearch(left, right, type) ==
  /\ arg' = [left |-> left, right |-> right, type |-> type, addr |-> eip]
  /\ region_left' = left /\ region_right' = right
  /\ l' = left /\ r' = right
  /\ any_matches' = FALSE /\ addr' = eip /\ pc' = "search"

Return(value) == phase' = "return" /\ result' = value

UserAddress ==
  /\ phase = "call" /\ eip < ULIM
  /\ phase' = "panic"
  /\ UNCHANGED <<given, search, lfile, rfile, info, result>>

NoStrings ==
  /\ phase = "call" /\ eip >= ULIM /\ ~strings_ok
  /\ Return(-1)
  /\ UNCHANGED <<given, search, lfile, rfile, info>>

SearchFiles ==
  /\ phase = "call" /\ eip >= ULIM /\ strings_ok
  /\ phase' = "file" /\ StartSearch(0, NumStabs - 1, "SO")
  /\ UNCHANGED <<given, lfile, rfile, info, result>>

SearchStep ==
  /\ phase \in {"file", "function"}
  /\ SearchNext
  /\ UNCHANGED <<given, phase, lfile, rfile, info, result>>

\* Mutant of NoFile: the first file's stab is taken for the header.
NoFileAtFirst ==
  /\ phase = "file" /\ pc = "done" /\ region_left <= 1
  /\ Return(-1)
  /\ lfile' = region_left /\ rfile' = region_right
  /\ UNCHANGED <<given, search, info>>

NoFile ==
  /\ phase = "file" /\ pc = "done" /\ region_left = 0
  /\ Return(-1)
  /\ lfile' = region_left /\ rfile' = region_right
  /\ UNCHANGED <<given, search, info>>

\* Mutant of SearchFunctions: the search runs on into the next files.
SearchFunctionsWide ==
  /\ phase = "file" /\ pc = "done" /\ region_left # 0
  /\ lfile' = region_left /\ rfile' = region_right
  /\ phase' = "function" /\ StartSearch(region_left, NumStabs - 1, "FUN")
  /\ UNCHANGED <<given, info, result>>

SearchFunctions ==
  /\ phase = "file" /\ pc = "done" /\ region_left # 0
  /\ lfile' = region_left /\ rfile' = region_right
  /\ phase' = "function" /\ StartSearch(region_left, region_right, "FUN")
  /\ UNCHANGED <<given, info, result>>

\* Mutant of NamesFile: an included file's name is passed over.
NamesFileMain(k) == Type(k) = "SO" /\ Value(k) # 0

NamesFile(k) == Type(k) = "SOL" \/ (Type(k) = "SO" /\ Value(k) # 0)

\* The walk back from a stab to the name of the file it came from.
FileNamedFrom(k) ==
  LET names == {j \in lfile .. k : NamesFile(j)}
  IN  IF names = {} THEN Unknown
      ELSE LET j == CHOOSE j \in names : \A i \in names : i <= j
           IN  IF j \in named THEN j ELSE Unknown

\* Mutant of Parameters: the count begins at the function's own stab.
ParametersFromFunction(lfun, rfun) ==
  {j \in lfun .. rfun - 1 : \A i \in lfun .. j : Type(i) = "PSYM"}

\* The parameters follow the function's stab.
Parameters(lfun, rfun) ==
  {j \in lfun + 1 .. rfun - 1 : \A i \in lfun + 1 .. j : Type(i) = "PSYM"}

FunctionFound ==
  /\ phase = "function" /\ pc = "done" /\ region_left <= region_right
  /\ info' = [file    |-> FileNamedFrom(region_left),
              fn_name |-> IF region_left \in named THEN region_left ELSE Unknown,
              fn_addr |-> Value(region_left),
              fn_narg |-> Cardinality(Parameters(region_left, region_right))]
  /\ Return(0)
  /\ UNCHANGED <<given, search, lfile, rfile>>

\* An assembly file has no functions; lline is left at the file's own stab.
NoFunction ==
  /\ phase = "function" /\ pc = "done" /\ region_left > region_right
  /\ info' = [info EXCEPT !.file = FileNamedFrom(lfile), !.fn_addr = eip]
  /\ Return(0)
  /\ UNCHANGED <<given, search, lfile, rfile>>

Next ==
  \/ UserAddress \/ NoStrings
  \/ SearchFiles \/ NoFile \/ SearchFunctions \/ SearchStep
  \/ FunctionFound \/ NoFunction

Spec == Init /\ [][Next]_vars /\ WF_vars(Next)

-----------------------------------------------------------------------------
(* Properties *)

\* What the table says, read as a whole and without the searches: the stabs of
\* a type that begin at or below the address, the last of them.
LastBelow(type) ==
  {k \in Index : /\ Type(k) = type /\ Value(k) <= eip
                 /\ \A j \in k + 1 .. NumStabs - 1 : Type(j) = type => Value(j) > eip}

\* The file and function the address lies in; a function belongs to a file if
\* no other file's stab comes between them.
FileOf(k) == {s \in 0 .. k : Type(s) = "SO" /\ \A j \in s + 1 .. k : Type(j) # "SO"}
TheFunction == {f \in LastBelow("FUN") : FileOf(f) = LastBelow("SO")}

Named(k) == IF k \in named THEN k ELSE Unknown

\* All the parameter stabs between a function's stab and the next function or file.
ParametersOf(f) ==
  {j \in Index : j > f /\ Type(j) = "PSYM" /\ \A i \in f + 1 .. j : Type(i) \notin {"FUN", "SO"}}

Answered == phase = "return" /\ result = 0

\* An address inside a function is reported with that function's name, start
\* and number of parameters, whatever files and stabs of other types surround
\* it: the second search (kdebug.c:148) relies on the range the first one left,
\* and the parameter loop (:199) on the range the second one left.
FunctionReported ==
  Answered => \A f \in TheFunction :
                /\ info.fn_name = Named(f)
                /\ info.fn_addr = Value(f)
                /\ info.fn_narg = Cardinality(ParametersOf(f))

\* The file reported is the one the compiler was reading when it came to the
\* function, an included one if an N_SOL stab says so (kdebug.c:184), and never
\* one named in another file's part of the table.
FileReported ==
  Answered => \A f \in TheFunction :
                LET file == CHOOSE j \in 0 .. f :
                              /\ Type(j) \in {"SO", "SOL"}
                              /\ \A i \in j + 1 .. f : Type(i) \notin {"SO", "SOL"}
                IN  info.file = Named(file)

\* In a file without functions (assembly) the address itself is reported, no
\* function of a neighbouring file, and the file's own name (kdebug.c:163).
AssemblyReported ==
  Answered => \A s \in LastBelow("SO") :
                (\A f \in Index : Type(f) = "FUN" => FileOf(f) # {s}) =>
                  info = [file |-> Named(s), fn_name |-> Unknown, fn_addr |-> eip, fn_narg |-> 0]

\* -1 means that no file of the table contains the address, or that there are
\* no strings: an address in a file is never refused (kdebug.c:131, :143).
RefusedOnlyOutside ==
  phase = "return" => (result = -1 <=> ~strings_ok \/ LastBelow("SO") = {})
=============================================================================
