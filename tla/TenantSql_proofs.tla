--------------------------- MODULE TenantSql_proofs ---------------------------
(***************************************************************************)
(* What every statement of every scope carries, for texts of any length.   *)
(* The counters of the scan keep step with the parameters it has bound, and*)
(* the places it gave to the caller's parameters are in their order: the   *)
(* witness grows by one place whenever the scan meets a placeholder.       *)
(***************************************************************************)
EXTENDS TenantSql, SequenceTheorems, TLAPS

\* Parameters are sequences of values, and the counters numbers; nothing is bound
\* before a call.
Typed ==
    /\ pc \in {"idle", "scan", "sent", "refused"}
    /\ bound \in Seq(Nat) /\ used \in Nat /\ refs \in Nat
    /\ pc # "idle" => Params \in Seq(Nat) /\ used <= Len(Params)
    /\ pc = "idle" => used = 0 /\ refs = 0 /\ bound = <<>>

Inv == Typed /\ ScopeBinds

\* Before the first statement nothing is bound.
LEMMA InitHolds == Init => Inv
  BY DEF Init, Inv, Typed, ScopeBinds

\* One more value is bound: the others stay where they are.
LEMMA AppendValue ==
  ASSUME NEW s \in Seq(Nat), NEW v \in Nat
  PROVE  /\ Append(s, v) \in Seq(Nat) /\ Len(Append(s, v)) = Len(s) + 1
         /\ DOMAIN Append(s, v) = 1..Len(s) + 1 /\ DOMAIN s = 1..Len(s)
         /\ Append(s, v)[Len(s) + 1] = v
         /\ \A k \in DOMAIN s : Append(s, v)[k] = s[k]
<1>1. /\ Append(s, v) \in Seq(Nat) /\ Len(Append(s, v)) = Len(s) + 1
      /\ \A k \in 1..Len(s) : Append(s, v)[k] = s[k]
      /\ Append(s, v)[Len(s) + 1] = v
  BY AppendProperties
<1>2. DOMAIN s = 1..Len(s) /\ DOMAIN Append(s, v) = 1..Len(Append(s, v))
  BY <1>1, LenProperties
<1> QED
  BY <1>1, <1>2

\* A call brings its parameters, and nothing is bound yet.
LEMMA CallHolds ==
  ASSUME Inv, Run \/ Insert
  PROVE  Inv'
<1>1. pc = "idle" /\ used = 0 /\ refs = 0 /\ bound = <<>>
  BY DEF Inv, Typed, Run, Insert
<1>2. UNCHANGED <<used, refs, bound>> /\ pc' \in {"scan", "refused"}
  BY DEF Run, Insert, Refuse, scan
<1>3. Params' \in Seq(Nat)
  <2>1. CASE Run
    <3>1. PICK t \in Texts, p \in ParamLists : call' = [op |-> "run", params |-> p]
      BY <2>1 DEF Run
    <3> QED
      BY <3>1, StatementAssumption DEF Params
  <2>2. CASE Insert
    <3>1. PICK s \in Inserts :
            call' = [op |-> "insert", columns |-> s.columns, params |-> s.params]
      BY <2>2 DEF Insert
    <3> QED
      BY <3>1, InsertAssumption DEF Params
  <2> QED
    BY <2>1, <2>2
<1>4. InOrder'
  <2> SUFFICES \E f \in [1..used' -> DOMAIN bound'] :
                 /\ \A j, k \in 1..used' : j < k => f[j] < f[k]
                 /\ \A j \in 1..used' : bound'[f[j]] = Params'[j]
                 /\ \A k \in DOMAIN bound' :
                      (\E j \in 1..used' : f[j] = k) \/ bound'[k] = Tenant
    BY DEF InOrder
  <2> DEFINE none == [j \in 1..0 |-> 1]
  <2>1. none \in [1..used' -> DOMAIN bound']
    BY <1>1, <1>2
  <2> WITNESS none \in [1..used' -> DOMAIN bound']
  <2> QED
    BY <1>1, <1>2
<1> QED
  BY <1>1, <1>2, <1>3, <1>4 DEF Inv, Typed, ScopeBinds

\* A placeholder takes the caller's next parameter: its place comes after the
\* places of the others.
LEMMA PlaceholderHolds ==
  ASSUME Inv, Placeholder
  PROVE  Inv'
<1>1. CASE Refuse /\ UNCHANGED scan
  <2>1. UNCHANGED <<bound, used, refs, call>> /\ pc' = "refused" /\ pc = "scan"
    BY <1>1 DEF Refuse, scan, Placeholder, Scanning
  <2>2. UNCHANGED Params /\ InOrder' = InOrder
    BY <2>1 DEF InOrder, Params
  <2> QED
    BY <2>1, <2>2 DEF Inv, Typed, ScopeBinds
<1>2. CASE /\ used < Len(Params) /\ bound' = Append(bound, Params[used + 1])
           /\ used' = used + 1 /\ UNCHANGED <<pc, refs>>
  <2>1. pc = "scan" /\ UNCHANGED call /\ UNCHANGED Params
    BY DEF Placeholder, Scanning, Params
  <2>2. /\ bound \in Seq(Nat) /\ used \in Nat /\ refs \in Nat /\ Params \in Seq(Nat)
        /\ Len(bound) = used + refs
    BY <2>1 DEF Inv, Typed, ScopeBinds
  <2>3. Params[used + 1] \in Nat
    BY <1>2, <2>2
  <2>4. /\ bound' \in Seq(Nat) /\ Len(bound') = Len(bound) + 1
        /\ DOMAIN bound' = 1..Len(bound) + 1 /\ DOMAIN bound = 1..Len(bound)
        /\ bound'[Len(bound) + 1] = Params[used + 1]
        /\ \A k \in DOMAIN bound : bound'[k] = bound[k]
    BY <1>2, <2>2, <2>3, AppendValue
  <2>5. InOrder'
    <3>1. PICK f \in [1..used -> DOMAIN bound] :
            /\ \A j, k \in 1..used : j < k => f[j] < f[k]
            /\ \A j \in 1..used : bound[f[j]] = Params[j]
            /\ \A k \in DOMAIN bound : (\E j \in 1..used : f[j] = k) \/ bound[k] = Tenant
      BY <2>1 DEF Inv, ScopeBinds, InOrder
    <3>a. \A j \in 1..used : f[j] \in 1..Len(bound)
      BY <2>4, <3>1
    <3>b. DOMAIN bound' = 1..Len(bound) + 1 /\ used' = used + 1 /\ Len(bound) \in Nat
      BY <1>2, <2>2, <2>4
    <3> DEFINE g == [j \in 1..used + 1 |-> IF j <= used THEN f[j] ELSE Len(bound) + 1]
    <3>2. g \in [1..used' -> DOMAIN bound']
      <4>1. \A j \in 1..used + 1 : g[j] \in 1..Len(bound) + 1
        BY <2>2, <3>a, <3>b
      <4> QED
        BY <3>b, <4>1
    <3>3. \A j, k \in 1..used' : j < k => g[j] < g[k]
      <4>1. SUFFICES ASSUME NEW j \in 1..used + 1, NEW k \in 1..used + 1, j < k
                     PROVE  g[j] < g[k]
        BY <3>b
      <4>2. j \in 1..used /\ g[j] = f[j]
        BY <2>2, <4>1
      <4>3. CASE k <= used
        BY <2>2, <3>1, <4>1, <4>2, <4>3
      <4>4. CASE k = used + 1
        <5>1. g[k] = Len(bound) + 1
          BY <2>2, <4>4
        <5>2. f[j] \in 1..Len(bound)
          BY <3>a, <4>2
        <5> QED
          BY <3>b, <4>2, <5>1, <5>2
      <4> QED
        BY <2>2, <4>1, <4>3, <4>4
    <3>4. \A j \in 1..used' : bound'[g[j]] = Params'[j]
      <4>1. SUFFICES ASSUME NEW j \in 1..used + 1
                     PROVE  bound'[g[j]] = Params[j]
        BY <2>1, <3>b
      <4>2. CASE j <= used
        BY <2>2, <2>4, <3>1, <3>a, <4>1, <4>2
      <4>3. CASE j = used + 1
        BY <2>2, <2>4, <4>1, <4>3
      <4> QED
        BY <2>2, <4>1, <4>2, <4>3
    <3>5. \A k \in DOMAIN bound' : (\E j \in 1..used' : g[j] = k) \/ bound'[k] = Tenant
      <4> SUFFICES ASSUME NEW k \in DOMAIN bound'
                   PROVE  (\E j \in 1..used' : g[j] = k) \/ bound'[k] = Tenant
        OBVIOUS
      <4>1. CASE k = Len(bound) + 1
        <5>1. used + 1 \in 1..used' /\ g[used + 1] = k
          BY <1>2, <2>2, <4>1
        <5> QED
          BY <5>1
      <4>2. CASE k \in DOMAIN bound
        <5>1. CASE bound[k] = Tenant
          BY <2>4, <4>2, <5>1
        <5>2. CASE \E j \in 1..used : f[j] = k
          <6>1. PICK j \in 1..used : f[j] = k
            BY <5>2
          <6>2. j \in 1..used' /\ g[j] = k
            BY <1>2, <2>2, <6>1
          <6> QED
            BY <6>2
        <5> QED
          BY <3>1, <4>2, <5>1, <5>2
      <4> QED
        BY <3>b, <2>4, <4>1, <4>2
    <3>6. \E h \in [1..used' -> DOMAIN bound'] :
            /\ \A j, k \in 1..used' : j < k => h[j] < h[k]
            /\ \A j \in 1..used' : bound'[h[j]] = Params'[j]
            /\ \A k \in DOMAIN bound' :
                 (\E j \in 1..used' : h[j] = k) \/ bound'[k] = Tenant
      <4> HIDE DEF g
      <4> WITNESS g \in [1..used' -> DOMAIN bound']
      <4> QED
        BY <3>2, <3>3, <3>4, <3>5
    <3> QED
      BY <3>6 DEF InOrder
  <2>6. (refs > 0 => \E k \in DOMAIN bound : bound[k] = Tenant)'
    BY <1>2, <2>4 DEF Inv, ScopeBinds
  <2> QED
    BY <1>2, <2>1, <2>2, <2>4, <2>5, <2>6 DEF Inv, Typed, ScopeBinds
<1> QED
  BY <1>1, <1>2 DEF Placeholder

\* A marker takes the tenant: the places of the caller's parameters stay.
LEMMA MarkerHolds ==
  ASSUME Inv, Marker
  PROVE  Inv'
<1>1. /\ pc = "scan" /\ UNCHANGED <<pc, call, used>> /\ UNCHANGED Params
      /\ bound' = Append(bound, Tenant) /\ refs' = refs + 1
  BY DEF Marker, Scanning, Params
<1>2. /\ bound \in Seq(Nat) /\ used \in Nat /\ refs \in Nat /\ Params \in Seq(Nat)
      /\ Len(bound) = used + refs
  BY <1>1 DEF Inv, Typed, ScopeBinds
<1>3. /\ bound' \in Seq(Nat) /\ Len(bound') = Len(bound) + 1
      /\ DOMAIN bound' = 1..Len(bound) + 1 /\ DOMAIN bound = 1..Len(bound)
      /\ bound'[Len(bound) + 1] = Tenant
      /\ \A k \in DOMAIN bound : bound'[k] = bound[k]
  BY <1>1, <1>2, TenantAssumption, AppendValue
<1>4. InOrder'
  <2>1. PICK f \in [1..used -> DOMAIN bound] :
          /\ \A j, k \in 1..used : j < k => f[j] < f[k]
          /\ \A j \in 1..used : bound[f[j]] = Params[j]
          /\ \A k \in DOMAIN bound : (\E j \in 1..used : f[j] = k) \/ bound[k] = Tenant
    BY <1>1 DEF Inv, ScopeBinds, InOrder
  <2>2. f \in [1..used' -> DOMAIN bound']
    BY <1>1, <1>2, <1>3, <2>1
  <2>3. \A j \in 1..used : f[j] \in DOMAIN bound /\ bound'[f[j]] = Params[j]
    BY <1>2, <1>3, <2>1
  <2>4. \A k \in DOMAIN bound' : (\E j \in 1..used : f[j] = k) \/ bound'[k] = Tenant
    <3>1. SUFFICES ASSUME NEW k \in DOMAIN bound'
                   PROVE  (\E j \in 1..used : f[j] = k) \/ bound'[k] = Tenant
      OBVIOUS
    <3>2. Len(bound) \in Nat /\ (k \in DOMAIN bound \/ k = Len(bound) + 1)
      BY <1>2, <1>3, <3>1
    <3>3. CASE k \in DOMAIN bound
      BY <1>3, <2>1, <3>3
    <3>4. CASE k = Len(bound) + 1
      BY <1>3, <3>4
    <3> QED
      BY <3>2, <3>3, <3>4
  <2>5. \E h \in [1..used' -> DOMAIN bound'] :
          /\ \A j, k \in 1..used' : j < k => h[j] < h[k]
          /\ \A j \in 1..used' : bound'[h[j]] = Params'[j]
          /\ \A k \in DOMAIN bound' :
               (\E j \in 1..used' : h[j] = k) \/ bound'[k] = Tenant
    <3> WITNESS f \in [1..used' -> DOMAIN bound']
    <3> QED
      BY <1>1, <2>1, <2>2, <2>3, <2>4
  <2> QED
    BY <2>5 DEF InOrder
<1>5. \E k \in DOMAIN bound' : bound'[k] = Tenant
  <2>1. Len(bound) + 1 \in DOMAIN bound'
    BY <1>2, <1>3
  <2> QED
    BY <1>3, <2>1
<1> QED
  BY <1>1, <1>2, <1>3, <1>4, <1>5 DEF Inv, Typed, ScopeBinds

\* Everything else that the scan copies leaves the parameters alone.
LEMMA CopyHolds ==
  ASSUME Inv, UNCHANGED <<pc, call, bound, used, refs>>
  PROVE  Inv'
<1>1. UNCHANGED Params /\ InOrder' = InOrder
  BY DEF InOrder, Params
<1> QED
  BY <1>1 DEF Inv, Typed, ScopeBinds

\* The end of the scan compares the counters.
LEMMA FinishHolds ==
  ASSUME Inv, Finish
  PROVE  Inv'
<1>1. UNCHANGED <<bound, used, refs, call>> /\ pc = "scan"
  BY DEF Finish, scan
<1>2. UNCHANGED Params /\ InOrder' = InOrder
  BY <1>1 DEF InOrder, Params
<1>3. pc' = "refused" \/ (pc' = "sent" /\ used = Len(Params) /\ refs # 0)
  BY DEF Finish, Refuse
<1> QED
  BY <1>1, <1>2, <1>3 DEF Inv, Typed, ScopeBinds

\* Every step of the scan keeps the invariant.
LEMMA StepHolds ==
  ASSUME Inv, [Next]_vars
  PROVE  Inv'
<1>1. CASE Run \/ Insert
  BY <1>1, CallHolds
<1>2. CASE Literal \/ OpenLiteral \/ Comment \/ Plain
  BY <1>2, CopyHolds DEF Literal, OpenLiteral, Comment, Plain, Keep
<1>3. CASE Placeholder
  BY <1>3, PlaceholderHolds
<1>4. CASE Marker
  BY <1>4, MarkerHolds
<1>5. CASE Finish
  BY <1>5, FinishHolds
<1>6. CASE UNCHANGED vars
  BY <1>6, CopyHolds DEF vars, scan
<1> QED
  BY <1>1, <1>2, <1>3, <1>4, <1>5, <1>6 DEF Next, Finished

\* Whatever feature code writes and passes along, a statement that reaches the
\* driver carries all of the caller's parameters in their order, the scope's
\* tenant at every other place, and at least one such place.
THEOREM ScopeAlwaysBinds == Spec => []ScopeBinds
<1>1. Inv => ScopeBinds
  BY DEF Inv
<1>2. Spec => []Inv
  BY InitHolds, StepHolds, PTL DEF Spec
<1> QED
  BY <1>1, <1>2, PTL
=============================================================================
