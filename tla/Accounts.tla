------------------------------- MODULE Accounts -------------------------------
(***************************************************************************)
(* Who may open, recover or replace an account: the SMS code and the       *)
(* phone-verified flag kept in Redis, and signup, recover-me and           *)
(* recreate-me as the awaits between that flag and the rows of             *)
(* users_entity, whose phone and login are unique; beside them update-me,  *)
(* which asks for no flag, delete-me and the administrator's hard delete.  *)
(***************************************************************************)
EXTENDS Integers, FiniteSets

CONSTANTS
    Phones, Logins, Codes,
    Requests,       \* calls of verify-otp, signup, recover-me, recreate-me and update-me
    MayFail,        \* whether an await may be rejected, done or not, or the process die
    None            \* no user with this phone, no code stored, no call

ASSUME AccountsAssumption ==
    /\ MayFail \in BOOLEAN
    /\ IsFiniteSet(Phones) /\ IsFiniteSet(Requests)
    /\ None \notin Codes \cup [id : Nat, login : Logins, deleted : BOOLEAN]

VARIABLES
    row,        \* row[p]: the user with this phone, soft-deleted or not
    nextId,     \* the id the next INSERT gets
    otp,        \* otp[p]: the code in Redis
    verified,   \* verified[p]: the phone-verified flag in Redis
    together,   \* together[l][p]: since the code (l = "dropcode") or flag ("unflag") of p
                \* was last set, who was about to delete it when it was first deleted
    pc,         \* pc[r]: the await the request has reached
    call,       \* call[r]: its operation and its body
    erased,     \* erased[r]: recreate-me has deleted the old row
    purged      \* how many rows administrators have deleted

redis  == <<otp, verified, together>>
users  == <<row, nextId, purged>>
vars   == <<users, redis, pc, call, erased>>

User(id, name) == [id |-> id, login |-> name, deleted |-> FALSE]
Ended == {"done", "refused", "failed"}

\* The first await of each operation.
First == [verify |-> "compare", signup |-> "check", recover |-> "flag", recreate |-> "check",
          update |-> "lookup"]

\* One phone has an account already; any phones may have been verified before.
Init ==
    /\ \E p \in Phones, name \in Logins :
          row = [q \in Phones |-> IF q = p THEN User(0, name) ELSE None]
    /\ nextId = 1 /\ purged = 0
    /\ otp = [p \in Phones |-> None] /\ verified \in [Phones -> BOOLEAN]
    /\ together = [l \in {"dropcode", "unflag"} |-> [p \in Phones |-> {}]]
    /\ pc = [r \in Requests |-> "idle"] /\ call = [r \in Requests |-> None]
    /\ erased = [r \in Requests |-> FALSE]

\* The request's next await, or its end, where its locals go.
Goto(r, label) ==
    /\ pc' = [pc EXCEPT ![r] = label]
    /\ call' = IF label \in Ended THEN [call EXCEPT ![r] = None] ELSE call

\* The request's next await when a test has passed, or its refusal.
Continue(r, passed, label) == Goto(r, IF passed THEN label ELSE "refused")

\* The request's next await after a statement that took effect, whose answer may
\* be lost all the same.
Reach(r, label) == Goto(r, label) \/ (MayFail /\ Goto(r, "failed"))

\* verify-otp carries a code, signup and recreate-me a login, update-me the id of
\* any account ever opened, for a token outlives the row.
Bodies(o, p) == [op : {o}, phone : {p}, login : IF o \in {"signup", "recreate"} THEN Logins ELSE {None},
                 code : IF o = "verify" THEN Codes ELSE {None}]
Updates   == [op : {"update"}, user : 0..nextId - 1]
AllBodies == Updates \cup UNION {Bodies(o, p) : o \in DOMAIN First \ {"update"}, p \in Phones}

Arrive(r) ==
    /\ pc[r] = "idle"
    /\ \E body \in AllBodies :
          /\ call' = [call EXCEPT ![r] = body] /\ pc' = [pc EXCEPT ![r] = First[body.op]]
    /\ UNCHANGED <<users, redis, erased>>

-----------------------------------------------------------------------------
(* send-otp and verify-otp                                                   *)

\* A DEL of p's code or flag, awaited at l: the first one finds everybody who has
\* read it and gone on.  Setting it anew starts over.
Spend(l, p) ==
    together' = [together EXCEPT ![l][p] =
        IF @ = {} THEN {q \in Requests : pc[q] = l /\ call[q].phone = p} ELSE @]
Renew(l, p) == together' = [together EXCEPT ![l][p] = {}]

\* SET otp EX 300 replaces whatever code was stored.
SendOtp(p) ==
    /\ \E c \in Codes : otp' = [otp EXCEPT ![p] = c]
    /\ Renew("dropcode", p)
    /\ UNCHANGED <<users, verified, pc, call, erased>>

Compare(r) ==
    /\ pc[r] = "compare"
    /\ Continue(r, otp[call[r].phone] = call[r].code, "dropcode")
    /\ UNCHANGED <<users, redis, erased>>

DropCode(r) ==
    /\ pc[r] = "dropcode" /\ Reach(r, "mark")
    /\ otp' = [otp EXCEPT ![call[r].phone] = None] /\ Spend("dropcode", call[r].phone)
    /\ UNCHANGED <<users, verified, erased>>

Mark(r) ==
    /\ pc[r] = "mark" /\ Reach(r, "done")
    /\ verified' = [verified EXCEPT ![call[r].phone] = TRUE] /\ Renew("unflag", call[r].phone)
    /\ UNCHANGED <<users, otp, erased>>

Expire(p) ==
    /\ \/ otp[p] # None /\ otp' = [otp EXCEPT ![p] = None] /\ UNCHANGED verified
       \/ verified[p] /\ verified' = [verified EXCEPT ![p] = FALSE] /\ UNCHANGED otp
    /\ UNCHANGED <<users, together, pc, call, erased>>

-----------------------------------------------------------------------------
(* signup, recover-me and recreate-me                                        *)

Taken(name)  == \E p \in Phones : row[p] # None /\ row[p].login = name
IsDeleted(p) == row[p] # None /\ row[p].deleted

\* signup wants the phone and the login free of any account, recreate-me wants
\* a soft-deleted one.
Check(r) ==
    /\ pc[r] = "check"
    /\ Continue(r, IF call[r].op = "signup" THEN row[call[r].phone] = None /\ ~Taken(call[r].login)
                                       ELSE IsDeleted(call[r].phone), "flag")
    /\ UNCHANGED <<users, redis, erased>>

\* GET phone-verified.
Flag(r) ==
    /\ pc[r] = "flag" /\ Continue(r, verified[call[r].phone], "unflag")
    /\ UNCHANGED <<users, redis, erased>>

\* What an operation does once the flag is spent.
Paid(r) == CASE call[r].op = "signup"   -> "insert"
             [] call[r].op = "recover"  -> "find"
             [] call[r].op = "recreate" -> "erase"

\* Mutant: the flag is left to expire.
UnflagKept(r) ==
    /\ pc[r] = "unflag" /\ Reach(r, Paid(r)) /\ Spend("unflag", call[r].phone)
    /\ UNCHANGED <<users, otp, verified, erased>>

\* DEL phone-verified.
Unflag(r) ==
    /\ pc[r] = "unflag" /\ Reach(r, Paid(r))
    /\ verified' = [verified EXCEPT ![call[r].phone] = FALSE] /\ Spend("unflag", call[r].phone)
    /\ UNCHANGED <<users, otp, erased>>

\* recover-me reads the account only after it has spent the flag.
Find(r) ==
    /\ pc[r] = "find" /\ Continue(r, IsDeleted(call[r].phone), "restore")
    /\ UNCHANGED <<users, redis, erased>>

\* UPDATE ... SET deletedAt = NULL WHERE phone: whatever row has the phone now.
Restore(r) ==
    /\ pc[r] = "restore"
    /\ \/ row[call[r].phone] # None /\ row' = [row EXCEPT ![call[r].phone].deleted = FALSE]
          /\ Reach(r, "done")
       \/ row[call[r].phone] = None /\ Goto(r, "failed") /\ UNCHANGED row
    /\ UNCHANGED <<nextId, purged, redis, erased>>

\* DELETE ... WHERE phone, deleted or not.
Erase(r) ==
    /\ pc[r] = "erase"
    /\ \/ /\ row[call[r].phone] # None /\ row' = [row EXCEPT ![call[r].phone] = None]
          /\ erased' = [erased EXCEPT ![r] = TRUE] /\ Reach(r, "insert")
       \/ row[call[r].phone] = None /\ Goto(r, "failed") /\ UNCHANGED <<row, erased>>
    /\ UNCHANGED <<nextId, purged, redis>>

\* Mutant: an INSERT that does not move the id generator on.
InsertSameId(r) ==
    /\ pc[r] = "insert"
    /\ row[call[r].phone] = None /\ ~Taken(call[r].login)
    /\ row' = [row EXCEPT ![call[r].phone] = User(nextId, call[r].login)] /\ UNCHANGED nextId
    /\ Reach(r, "done")
    /\ UNCHANGED <<purged, redis, erased>>

\* Mutant: login has no unique constraint.
InsertAnyLogin(r) ==
    /\ pc[r] = "insert"
    /\ row[call[r].phone] = None
    /\ row' = [row EXCEPT ![call[r].phone] = User(nextId, call[r].login)] /\ nextId' = nextId + 1
    /\ Reach(r, "done")
    /\ UNCHANGED <<purged, redis, erased>>

\* Mutant: phone has no unique constraint and save overwrites.
InsertAnyPhone(r) ==
    /\ pc[r] = "insert"
    /\ ~Taken(call[r].login)
    /\ row' = [row EXCEPT ![call[r].phone] = User(nextId, call[r].login)] /\ nextId' = nextId + 1
    /\ Reach(r, "done")
    /\ UNCHANGED <<purged, redis, erased>>

\* INSERT, unless one of the unique constraints objects.
Insert(r) ==
    /\ pc[r] = "insert"
    /\ row[call[r].phone] = None /\ ~Taken(call[r].login)
    /\ row' = [row EXCEPT ![call[r].phone] = User(nextId, call[r].login)] /\ nextId' = nextId + 1
    /\ Reach(r, "done")
    /\ UNCHANGED <<purged, redis, erased>>

InsertConflict(r) ==
    /\ pc[r] = "insert"
    /\ row[call[r].phone] # None \/ Taken(call[r].login)
    /\ Goto(r, "failed")
    /\ UNCHANGED <<users, redis, erased>>

-----------------------------------------------------------------------------
(* update-me, delete-me and the administrator's hard delete                  *)

\* The phone the account has now, if it is there at all.
Home(id) == {p \in Phones : row[p] # None /\ row[p].id = id}

Lookup(r) ==
    /\ pc[r] = "lookup"
    /\ Continue(r, \E p \in Home(call[r].user) : ~row[p].deleted, "update")
    /\ UNCHANGED <<users, redis, erased>>

\* UPDATE ... WHERE id, deleted by now or not: whatever phone and login the body
\* asks for, verified or not, as long as no other row has them.
Update(r) ==
    /\ pc[r] = "update"
    /\ \E p \in Home(call[r].user), q \in Phones, name \in Logins :
          /\ \A o \in Phones \ {p} : row[o] # None => o # q /\ row[o].login # name
          /\ row' = [row EXCEPT ![p] = None, ![q] = [row[p] EXCEPT !.login = name]]
    /\ Reach(r, "done")
    /\ UNCHANGED <<nextId, purged, redis, erased>>

\* No row to update any more, or another row has what the body asks for.
UpdateRefused(r) ==
    /\ pc[r] = "update"
    /\ \/ Home(call[r].user) = {} /\ Goto(r, "refused")
       \/ /\ Home(call[r].user) # {} /\ \E p \in Phones \ Home(call[r].user) : row[p] # None
          /\ Goto(r, "failed")
    /\ UNCHANGED <<users, redis, erased>>

\* delete-me of the account's owner.
SoftDelete(p) ==
    /\ row[p] # None /\ ~row[p].deleted
    /\ row' = [row EXCEPT ![p].deleted = TRUE]
    /\ UNCHANGED <<nextId, purged, redis, pc, call, erased>>

\* delete-one-hard, of a live or a soft-deleted account.
HardDelete(p) ==
    /\ row[p] # None
    /\ row' = [row EXCEPT ![p] = None] /\ purged' = purged + 1
    /\ UNCHANGED <<nextId, redis, pc, call, erased>>

\* An await that is rejected before it took effect, or the death of the process.
Failure(r) ==
    /\ MayFail /\ pc[r] \notin Ended \cup {"idle"} /\ Goto(r, "failed")
    /\ UNCHANGED <<users, redis, erased>>

Step(r) ==
    \/ Compare(r) \/ DropCode(r) \/ Mark(r)
    \/ Check(r) \/ Flag(r) \/ Unflag(r)
    \/ Find(r) \/ Restore(r) \/ Erase(r) \/ Insert(r) \/ InsertConflict(r)
    \/ Lookup(r) \/ Update(r) \/ UpdateRefused(r)

Next ==
    \/ \E r \in Requests : Arrive(r) \/ Step(r) \/ Failure(r)
    \/ \E p \in Phones : SendOtp(p) \/ Expire(p) \/ SoftDelete(p) \/ HardDelete(p)

Spec == Init /\ [][Next]_vars

-----------------------------------------------------------------------------
(* Properties                                                                *)

TypeOK ==
    /\ \A p \in Phones : \/ row[p] = None
                         \/ row[p] \in [id : 0..nextId - 1, login : Logins, deleted : BOOLEAN]
    /\ nextId \in Nat \ {0} /\ purged \in Nat
    /\ otp \in [Phones -> Codes \cup {None}] /\ verified \in [Phones -> BOOLEAN]
    /\ together \in [{"dropcode", "unflag"} -> [Phones -> SUBSET Requests]]
    /\ pc \in [Requests -> {"idle", "compare", "dropcode", "mark", "check", "flag", "unflag",
                            "find", "restore", "erase", "insert", "lookup", "update"} \cup Ended]
    /\ \A r \in Requests : call[r] \in
          IF pc[r] \in Ended \cup {"idle"} THEN {None}
          ELSE AllBodies
    /\ erased \in [Requests -> BOOLEAN]

\* No two accounts, soft-deleted ones included, share a login or an id, however
\* many signups, replacements and updates passed their checks together.
UniqueIdentity ==
    \A p, q \in Phones : p # q /\ row[p] # None /\ row[q] # None =>
        row[p].login # row[q].login /\ row[p].id # row[q].id

\* The code and the flag are read, and deleted only one await later, so one code
\* may verify and one flag may open, recover or replace accounts more than once:
\* but only for requests that had all read it when the first of them deleted it,
\* whatever expires, fails or is sent anew around them.
SpentTogether ==
    [][\A r \in Requests :
          pc[r] \in {"dropcode", "unflag"} /\ pc'[r] \in {"mark", "find", "erase", "insert"} =>
              r \in together'[pc[r]][call[r].phone]]_vars

\* Every account ever opened is still there, soft-deleted perhaps, or was erased
\* by a recreate-me of its own or by an administrator: none is overwritten by a
\* concurrent signup or update, or erased twice.
EveryAccountAccountedFor ==
    nextId = Cardinality({p \in Phones : row[p] # None})
             + Cardinality({r \in Requests : erased[r]}) + purged

\* recreate-me answers 'user already exists' when the account is live, so only an
\* administrator ever destroys a live account.
LiveAccountsSurvive ==
    [][\A p \in Phones : row[p] # None /\ ~row[p].deleted =>
          \/ \E q \in Phones : row'[q] # None /\ row'[q].id = row[p].id
          \/ purged' > purged]_vars
=============================================================================
