----------------------------- MODULE MCDebugInfo -----------------------------
(* Model of DebugInfo for TLC: tables as the compiler and linker make them.  *)
EXTENDS DebugInfo, SequencesExt

\* bounds: two files of at most two functions, each with at most two
\* parameters and perhaps lines of an included file; addresses of files and
\* functions are even, so that a function is at least two bytes long.
Starts == {2 * a : a \in 2 .. 4}

\* A function comes from the file read last; an included file's name may come
\* before it, or within its lines.
Functions == {inc \o <<"FUN">> \o par \o body :
                inc \in {<<>>, <<"SOL">>},
                par \in {<<>>, <<"PSYM">>, <<"PSYM", "PSYM">>},
                body \in {<<"LINE">>, <<"SOL", "LINE">>}}
Bodies == {<<"LINE">>} \cup Functions \cup {f \o g : f, g \in Functions}
FilePairs == {p \in {<<"UNDF", "SO">> \o a \o <<"SO">> \o b : a, b \in Bodies} : Len(p) = NumStabs}

\* Files begin in order and a file's functions, at different addresses, in
\* order within it; the first of them where the file does or later.
Ordered(t) ==
  \A j, k \in Index :
    j < k /\ t[j].n_type \in {"SO", "FUN"} /\ t[k].n_type \in {"SO", "FUN"} =>
      \/ t[j].n_value < t[k].n_value
      \/ t[j].n_value = t[k].n_value /\ t[j].n_type = "SO"

\* The values of the files and functions of a shape, one sequence per table.
Marked(p) == SetToSortSeq({k \in Index : p[k + 1] \in {"SO", "FUN"}}, <)
TablesOf(p) ==
  LET mark == Marked(p)
  IN  {[k \in Index |->
          [n_type |-> p[k + 1],
           n_value |-> IF \E i \in DOMAIN mark : mark[i] = k
                       THEN v[CHOOSE i \in DOMAIN mark : mark[i] = k] ELSE 0]] :
        v \in [DOMAIN mark -> Starts]}
MCTables == {t \in UNION {TablesOf(p) : p \in FilePairs} : Ordered(t)}

\* bound: the name that may lie outside the string table is one that is read,
\* and only if the table is there.
MCInit ==
  /\ Init
  /\ named # Index => strings_ok /\ \A k \in Index \ named : Type(k) \in {"SO", "SOL", "FUN"}

MCSpec == MCInit /\ [][Next]_vars /\ WF_vars(Next)
=============================================================================
