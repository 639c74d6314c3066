---------------------------- MODULE MemberRegister ----------------------------
(***************************************************************************)
(* What the profile change workflow promises, without handlers,            *)
(* transactions or locks.  The register of members changes in one way: a   *)
(* signer applies fields a member proposed, and the change and its audit   *)
(* record are one step.  A decision on a proposal is final.  The ids of the*)
(* audit records tell in which order the changes of a member were made.    *)
(*                                                                         *)
(* Reapply is the promise the code does not keep: a signer whose review    *)
(* began while the proposal was pending applies it, or records its         *)
(* rejection, although another signer has decided in the meantime.         *)
(***************************************************************************)
EXTENDS Integers

CONSTANTS Ids,       \* ids of change requests
          Keys,      \* identities of audit rows
          Serials,   \* the ids audit rows may get
          Members, Fields, Values,
          Register,  \* the register at the start
          Initial,   \* the proposals at the start, None where there is none
          Signers,   \* staff who may decide
          None

VARIABLES members, proposals, audit
vars == <<members, proposals, audit>>

Init == members = Register /\ proposals = Initial /\ audit = {}

\* What a member may propose: a value for some of the fields.
Fresh == [member : Members, requested : UNION {[F -> Values] : F \in SUBSET Fields},
          status : {"pending"}, reviewedBy : {None}]

Propose(q) ==
    /\ proposals[q] = None /\ proposals'[q] \in Fresh
    /\ proposals' = [proposals EXCEPT ![q] = proposals'[q]]
    /\ UNCHANGED <<members, audit>>

Log(k, q, action, u, change) ==
    /\ \A a \in audit : a.by # k
    /\ \E n \in Serials :
        /\ \A a \in audit : a.member = proposals[q].member /\ a.after # <<>> => a.id < n
        /\ audit' = audit \cup
             {[id |-> n, by |-> k, request |-> q, member |-> proposals[q].member,
               action |-> action, actor |-> u, after |-> change]}

Decide(q, status, u) ==
    /\ proposals[q].status = "pending"
    /\ proposals' = [proposals EXCEPT ![q].status = status, ![q].reviewedBy = u]

\* Fields the member proposed are written, at least one, and the record says so.
Apply(k, q, u) ==
    \E F \in (SUBSET DOMAIN proposals[q].requested) \ {{}} :
        LET change == [f \in F |-> proposals[q].requested[f]] IN
        /\ members' = [members EXCEPT ![proposals[q].member] =
             [f \in Fields |-> IF f \in F THEN change[f] ELSE @[f]]]
        /\ Log(k, q, "profile_change.approved", u, change)

Refuse(k, q, u) == Log(k, q, "profile_change.rejected", u, <<>>) /\ UNCHANGED members

Approve(k, q, u) == Decide(q, "approved", u) /\ Apply(k, q, u)
Reject(k, q, u)  == Decide(q, "rejected", u) /\ Refuse(k, q, u)

Reapply(k, q, u) ==
    /\ proposals[q].status # "pending"
    /\ Apply(k, q, u) \/ Refuse(k, q, u)
    /\ UNCHANGED proposals

\* Nothing is decided without a record.
Next == \E q \in Ids :
            \/ Propose(q)
            \/ /\ audit' # audit /\ proposals[q] # None
               /\ \E k \in Keys, u \in Signers :
                    Approve(k, q, u) \/ Reject(k, q, u) \/ Reapply(k, q, u)

Spec == Init /\ [][Next]_vars
=============================================================================
