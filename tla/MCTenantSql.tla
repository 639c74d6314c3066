----------------------------- MODULE MCTenantSql -----------------------------
(* All short texts, with about as many parameters as they have question     *)
(* marks, and inserts with good and bad names.                              *)
EXTENDS TenantSql

CONSTANT MaxLength  \* bound: symbols of a text

\* The double quote is treated as the single one, a space as a letter that is
\* none; a newline stands for both kinds of blank.
MCSymbols == {"single", "backtick", "letter", "backslash", "dash", "slash", "star",
              "newline", "?", ":tenant"}
MCTexts == UNION {[1..n -> MCSymbols] : n \in 0..MaxLength}
           \cup [1..MaxLength + 1 -> {"single", "backslash", "?", ":tenant"}]
           \cup [1..MaxLength + 1 -> {"slash", "star", "dash", "newline", ":tenant"}]
MCParamLists == {<<>>, <<2>>, <<2, 3>>}

\* Good names, the one the scope sets, and names that would end up in the text.
Good == {<<"letter">>, <<"letter", "letter">>}
MCNames == Good \cup {<<>>, <<"tenant_id">>, <<"letter", "backtick">>, <<"letter", ":tenant">>}
MCColumns == {<<>>} \cup {<<c>> : c \in MCNames}
                    \cup {<<c, d>> : c \in Good, d \in MCNames \ {<<"letter">>, <<"letter", "letter">>}}
                    \cup {<<<<"letter">>, <<"letter", "letter">>>>}
MCInserts == {[table |-> n, columns |-> cs, params |-> [k \in DOMAIN cs |-> k + 1]] :
                n \in {<<"letter">>, <<"letter", "backtick", "?">>}, cs \in MCColumns}
=============================================================================
