------------------------------ MODULE TenantSql ------------------------------
(***************************************************************************)
(* The compile step of src/data/tenantScope.js: every statement of feature *)
(* code passes it on its way to the driver.  It scans the text once,       *)
(* replaces each :tenant by a placeholder, puts the scope's tenant among   *)
(* the parameters at that place, and refuses a statement without :tenant or*)
(* with a wrong number of parameters.                                      *)
(*                                                                         *)
(* A text is a sequence of symbols: a character of each kind the scan tells*)
(* apart, and ":tenant" for the seven characters of the marker (none of    *)
(* which means anything to the scan on its own).  One action is one pass   *)
(* through the loop.                                                       *)
(*                                                                         *)
(* What the database makes of a text is said separately, by a lexer that   *)
(* reads one symbol at a time (Read); the properties compare the two.  The *)
(* lexer is MySQL's for what the scan knows of: literals with their two    *)
(* ways to escape a quote, quoted identifiers, -- and /* comments.         *)
(***************************************************************************)
EXTENDS Integers, Sequences, FiniteSets

CONSTANTS
    Tenant,     \* the tenant the scope is bound to: a positive integer of the server
    Texts,      \* the statements feature code writes
    ParamLists, \* the parameters it passes along
    Inserts,    \* what it passes to insert: table, columns and values
    None

Quotes == {"single", "double", "backtick"}
Letters == {"letter", "tenant_id"}
Symbols == Quotes \cup Letters \cup {"backslash", "dash", "slash", "star", "newline",
                                     "space", "?", ":tenant"}

ASSUME StatementAssumption == Texts \subseteq Seq(Symbols) /\ ParamLists \subseteq Seq(Nat)
\* The columns of an object are distinct, and each has its value.
ASSUME InsertAssumption ==
    \A s \in Inserts :
        /\ s.table \in Seq(Symbols) /\ s.columns \in Seq(Seq(Symbols))
        /\ s.params \in Seq(Nat) /\ Len(s.params) = Len(s.columns)
        /\ \A j, k \in DOMAIN s.columns : s.columns[j] = s.columns[k] => j = k
ASSUME TenantAssumption == Tenant \in Nat \ {0} /\ None \notin Quotes

VARIABLES
    pc,      \* "idle", "scan", "sent" to the driver or "refused"
    call,    \* the statement, or the insert
    text,    \* the text being scanned
    i,       \* the next symbol
    quote,   \* the quote that opened the literal the scan is in, or None
    out,     \* the text for the driver, as far as it is written
    bound,   \* its parameters so far (finalParams)
    used,    \* caller parameters taken so far (paramIndex)
    refs     \* markers replaced so far (tenantRefs)

scan == <<i, quote, out, bound, used, refs>>
vars == <<pc, call, text, scan>>

----------------------------------------------------------------------------
(* What the scan computes.                                                *)

\* (Names that end in _slip are plausible mistakes in the code a definition
\* models: each one shows which property would notice it.)

Params == call.params
Has(k, s) == k <= Len(text) /\ text[k] = s
Earliest(S, otherwise) == IF S = {} THEN otherwise
                          ELSE CHOOSE k \in S : \A j \in S : k <= j

LineEnd == Earliest({k \in i..Len(text) : text[k] = "newline"}, Len(text) + 1)

BlockEnd == Earliest({k \in i + 4..Len(text) + 1 : Has(k - 2, "star") /\ Has(k - 1, "slash")},
                     Len(text) + 1)

\* The text up to k is copied as it is.
CopyUpTo(k) ==
    /\ out' = out \o SubSeq(text, i, IF k <= Len(text) + 1 THEN k - 1 ELSE Len(text))
    /\ i' = k

\* "const TENANT_MARKER" and isIdentifierChar: :tenant_id is not the marker.
AtMarker == Has(i, ":tenant") /\ ~\E c \in Letters : Has(i + 1, c)

AtLineComment == Has(i, "dash") /\ Has(i + 1, "dash")
AtBlockComment == Has(i, "slash") /\ Has(i + 1, "star")

\* IDENTIFIER
SafeName(name) == name # <<>> /\ \A k \in DOMAIN name : name[k] \in Letters

Quoted(name) == <<"backtick">> \o name \o <<"backtick">>

\* Items in a row, each after a space.
Listed(items) ==
    LET upTo[n \in 0..Len(items)] ==
            IF n = 0 THEN <<>> ELSE upTo[n - 1] \o <<"space">> \o items[n]
    IN  upTo[Len(items)]

\* INSERT INTO `table` (`tenant_id`, ...) VALUES (:tenant, ?, ...)
InsertText(table, columns) ==
    <<"letter", "space">> \o Quoted(table)
    \o Listed(<<Quoted(<<"tenant_id">>)>> \o [k \in DOMAIN columns |-> Quoted(columns[k])])
    \o <<"space", "letter">>
    \o Listed(<<<<":tenant">>>> \o [k \in DOMAIN columns |-> <<"?">>])

----------------------------------------------------------------------------
Init ==
    /\ pc = "idle" /\ call = None /\ text = <<>>
    /\ i = 1 /\ quote = None /\ out = <<>> /\ bound = <<>> /\ used = 0 /\ refs = 0

Refuse == pc' = "refused"

\* select, selectOne, selectValue and execute hand the text over.
Run ==
    /\ pc = "idle"
    /\ \E t \in Texts, p \in ParamLists :
        /\ call' = [op |-> "run", params |-> p] /\ text' = t
        /\ \/ t \in Seq({"space", "newline"}) /\ Refuse
           \/ t \notin Seq({"space", "newline"}) /\ pc' = "scan"
    /\ UNCHANGED scan

\* The names of columns are not looked at.
Insert_slip ==
    /\ pc = "idle"
    /\ \E s \in Inserts :
        /\ call' = [op |-> "insert", columns |-> s.columns, params |-> s.params]
        /\ \/ ~SafeName(s.table) /\ Refuse /\ UNCHANGED text
           \/ /\ SafeName(s.table)
              /\ text' = InsertText(s.table, s.columns) /\ pc' = "scan"
    /\ UNCHANGED scan

\* insert() checks the names, which become part of the text, and refuses a
\* tenant_id, which it sets itself.
Insert ==
    /\ pc = "idle"
    /\ \E s \in Inserts :
        LET safe == /\ SafeName(s.table)
                    /\ \A k \in DOMAIN s.columns :
                         s.columns[k] # <<"tenant_id">> /\ SafeName(s.columns[k]) IN
        /\ call' = [op |-> "insert", columns |-> s.columns, params |-> s.params]
        /\ \/ ~safe /\ Refuse /\ UNCHANGED text
           \/ safe /\ text' = InsertText(s.table, s.columns) /\ pc' = "scan"
    /\ UNCHANGED scan

Scanning == pc = "scan" /\ i <= Len(text)
Keep == UNCHANGED <<pc, call, text, bound, used, refs>>

\* Inside a literal: an escaped symbol, a doubled quote, the end, any other.
Escaped == Has(i, "backslash") /\ quote # "backtick"
Doubled == Has(i, quote) /\ Has(i + 1, quote)

Literal ==
    /\ Scanning /\ quote # None
    /\ \/ Escaped /\ CopyUpTo(i + 2) /\ UNCHANGED quote
       \/ Doubled /\ CopyUpTo(i + 2) /\ UNCHANGED quote
       \/ Has(i, quote) /\ ~Doubled /\ CopyUpTo(i + 1) /\ quote' = None
       \/ ~Has(i, quote) /\ ~Escaped /\ CopyUpTo(i + 1) /\ UNCHANGED quote
    /\ Keep

OpenLiteral ==
    /\ Scanning /\ quote = None /\ text[i] \in Quotes
    /\ quote' = text[i] /\ CopyUpTo(i + 1)
    /\ Keep

Comment ==
    /\ Scanning /\ quote = None
    /\ \/ AtLineComment /\ CopyUpTo(LineEnd)
       \/ AtBlockComment /\ CopyUpTo(BlockEnd)
    /\ UNCHANGED quote /\ Keep

\* The scope's tenant and the caller's parameters are bound in the order in
\* which their places appear.
Placeholder ==
    /\ Scanning /\ quote = None /\ text[i] = "?"
    /\ \/ used >= Len(Params) /\ Refuse /\ UNCHANGED scan
       \/ /\ used < Len(Params)
          /\ out' = Append(out, "?") /\ bound' = Append(bound, Params[used + 1])
          /\ used' = used + 1 /\ i' = i + 1
          /\ UNCHANGED <<pc, quote, refs>>
    /\ UNCHANGED <<call, text>>

\* The tenant goes in front: a convention of statements that begin with it.
Marker_slip ==
    /\ Scanning /\ quote = None /\ AtMarker
    /\ out' = Append(out, "?") /\ bound' = <<Tenant>> \o bound
    /\ refs' = refs + 1 /\ i' = i + 1
    /\ UNCHANGED <<pc, call, text, quote, used>>

Marker ==
    /\ Scanning /\ quote = None /\ AtMarker
    /\ out' = Append(out, "?") /\ bound' = Append(bound, Tenant)
    /\ refs' = refs + 1 /\ i' = i + 1
    /\ UNCHANGED <<pc, call, text, quote, used>>

Plain ==
    /\ Scanning /\ quote = None
    /\ text[i] \notin Quotes \cup {"?"} /\ ~AtMarker /\ ~AtLineComment /\ ~AtBlockComment
    /\ CopyUpTo(i + 1)
    /\ UNCHANGED quote /\ Keep

\* A statement that takes too few parameters is let through.
Finish_slip ==
    /\ pc = "scan" /\ i > Len(text)
    /\ \/ refs = 0 /\ Refuse
       \/ refs # 0 /\ pc' = "sent"
    /\ UNCHANGED <<call, text, scan>>

Finish ==
    /\ pc = "scan" /\ i > Len(text)
    /\ \/ (used # Len(Params) \/ refs = 0) /\ Refuse
       \/ used = Len(Params) /\ refs # 0 /\ pc' = "sent"
    /\ UNCHANGED <<call, text, scan>>

Finished == pc \in {"sent", "refused"} /\ UNCHANGED vars

Next == \/ Run \/ Insert
        \/ Literal \/ OpenLiteral \/ Comment \/ Placeholder \/ Marker \/ Plain
        \/ Finish \/ Finished

Spec == Init /\ [][Next]_vars

----------------------------------------------------------------------------
(* What the database reads, one symbol at a time.  In "dash" and "slash" it *)
(* waits to see whether a comment begins, in "star" whether one ends.       *)
FromCode(s) == CASE s \in Quotes -> <<"literal", s>>
                 [] s \in {"dash", "slash"} -> <<s>>
                 [] OTHER -> <<"code">>

Read(mode, s) ==
    CASE mode[1] = "literal" -> IF s = "backslash" /\ mode[2] # "backtick"
                                THEN <<"escape", mode[2]>>
                                ELSE IF s = mode[2] THEN <<"code">> ELSE mode
      [] mode[1] = "escape"  -> <<"literal", mode[2]>>
      [] mode[1] = "line"    -> IF s = "newline" THEN <<"code">> ELSE mode
      [] mode[1] = "block"   -> IF s = "star" THEN <<"star">> ELSE mode
      [] mode[1] = "star"    -> IF s = "slash" THEN <<"code">>
                                ELSE IF s = "star" THEN mode ELSE <<"block">>
      [] mode[1] = "dash" /\ s = "dash"  -> <<"line">>
      [] mode[1] = "slash" /\ s = "star" -> <<"block">>
      [] OTHER -> FromCode(s)

\* The mode after each symbol of a text.
Lexed(t) ==
    LET mode[k \in 0..Len(t)] == IF k = 0 THEN <<"code">> ELSE Read(mode[k - 1], t[k])
    IN  mode

\* The places where a text, read so, has a placeholder or a tenant marker.
InCode(mode) == mode[1] \in {"code", "dash", "slash"}
Places(t) ==
    LET mode == Lexed(t)
    IN  {k \in 1..Len(t) :
            /\ InCode(mode[k - 1]) /\ t[k] \in {"?", ":tenant"}
            /\ t[k] = ":tenant" => ~(k < Len(t) /\ t[k + 1] \in Letters)}

Rank(S, k) == Cardinality({j \in S : j <= k})
Markers(t) == {k \in Places(t) : t[k] = ":tenant"}
Questions(t) == Places(t) \ Markers(t)

\* Every variable has its type.
TypeOK ==
    /\ pc \in {"idle", "scan", "sent", "refused"}
    /\ text \in Seq(Symbols) /\ out \in Seq(Symbols)
    /\ i \in Nat \ {0} /\ quote \in Quotes \cup {None}
    /\ bound \in Seq(Nat) /\ used \in Nat /\ refs \in Nat
    /\ pc # "idle" => call.params \in Seq(Nat)

BoundAsWritten ==
    (pc = "sent" /\ call.op = "run") =>
        /\ Places(out) = Places(text) /\ Len(bound) = Cardinality(Places(text))
        /\ \A k \in Places(text) :
             bound[Rank(Places(text), k)] =
                IF k \in Markers(text) THEN Tenant ELSE Params[Rank(Questions(text), k)]
        /\ out = [k \in 1..Len(text) |-> IF k \in Markers(text) THEN "?" ELSE text[k]]

RefusedForAReason ==
    (pc \in {"sent", "refused"} /\ call.op = "run") =>
        (pc = "sent" <=> /\ Markers(text) # {}
                         /\ Cardinality(Questions(text)) = Len(Params))

\* A statement that reaches the driver has one value per placeholder the
\* database will see, in the caller's order, with the scope's own tenant, and
\* nothing else, at the places of the markers; beyond that the text is the
\* caller's (tenantScope.js:20-23, 59-65).  The scan refuses what it should and
\* nothing else: a statement whose markers are all inside literals, comments or
\* longer names counts as having none, one whose placeholders are there does not
\* need more parameters (tenantScope.js:17-19).
SentAsWritten == TypeOK /\ BoundAsWritten /\ RefusedForAReason

\* An insert binds its own tenant to tenant_id and the values to the columns,
\* whatever names it was given: one that could break its text is refused, one
\* that could not is accepted (tenantScope.js:239-243).
InsertBindsItsRow ==
    (pc \in {"sent", "refused"} /\ call.op = "insert") =>
        /\ pc = "sent" => /\ bound = <<Tenant>> \o Params
                          /\ <<"tenant_id">> \notin {call.columns[k] : k \in DOMAIN call.columns}
                          /\ Cardinality(Places(out)) = Len(call.columns) + 1
        /\ pc = "refused" => text = <<>>

\* Whatever the lexer of the database: the values bound so far are the caller's
\* first parameters, in order, with the tenant at every other place, one place
\* per marker; and what is sent has taken all of the caller's parameters and the
\* tenant at least once (tenantScope.js:20-25).
InOrder ==
    \E f \in [1..used -> DOMAIN bound] :
        /\ \A j, k \in 1..used : j < k => f[j] < f[k]
        /\ \A j \in 1..used : bound[f[j]] = Params[j]
        /\ \A k \in DOMAIN bound : (\E j \in 1..used : f[j] = k) \/ bound[k] = Tenant
ScopeBinds ==
    /\ Len(bound) = used + refs
    /\ pc # "idle" => InOrder
    /\ refs > 0 => \E k \in DOMAIN bound : bound[k] = Tenant
    /\ pc = "sent" => used = Len(Params) /\ refs > 0
=============================================================================
