------------------------------ MODULE PhoneCodes ------------------------------
(***************************************************************************)
(* One-time codes sent by text message: how a customer proves that a phone *)
(* number is theirs, for the account (sign-in, registration, reset of the  *)
(* password) and for the phone number of a delivery address.               *)
(*                                                                         *)
(* The table SmsCodes has, as a rule, one row per phone number.  A request *)
(* for a code finds no row and inserts one, finds an expired one and puts  *)
(* a new code into it, or finds a fresh one and sends nothing.  The row is *)
(* flushed, the text is sent and awaited, and only then the transaction    *)
(* commits: until then the row is locked, and a rollback takes back the    *)
(* code but not the text.                                                  *)
(*                                                                         *)
(* The verification page of an address carries the phone number and the    *)
(* id of the address, and no handler behind it compares the two: a code    *)
(* for any number confirms the address, whatever number it has by then.    *)
(*                                                                         *)
(* Codes are numbered in the order they are generated, which is also the   *)
(* order of their insert_date; two of them are never equal.                *)
(***************************************************************************)
EXTENDS Naturals, FiniteSets

CONSTANTS
    User, Phone,
    OwnPhone,     \* the phone number of each account
    Addressee,    \* the users who have an address
    Slot,         \* how many requests run at the same time
    MaxCodes      \* bound: codes generated

ASSUME OwnPhoneType == OwnPhone \in [User -> Phone]
ASSUME AddresseeType == Addressee \subseteq User
ASSUME BoundsType == MaxCodes \in Nat

Code == 1..MaxCodes

VARIABLES
    sms,       \* SmsCodes: the committed rows, by the code they were inserted with
    issued,    \* codes generated so far
    expired,   \* codes up to this one are older than SMS_TTL
    texts,     \* texts handed to the SMS sender, by code
    excused,   \* codes made while another request for the number was at work,
               \* and codes that were rolled back
    last,      \* code of the latest text for each phone number; 0 if there is
               \* none, or its request was rolled back
    accounts,  \* users with phone_number_confirmed
    address,   \* phone number and confirmed flag of each address
    proved,    \* <<user, phone>> for which an entered code was accepted
    astray,    \* customers whose address a code for another number was entered
               \* for, or who edited it while a verification was under way
    req        \* what each request slot is doing

codeVars == <<sms, issued, expired, texts, excused, last>>
ownerVars == <<accounts, address, proved, astray>>
vars == <<codeVars, ownerVars, req>>

Idle == [kind |-> "idle"]

Row == [phone : Phone, code : Code, by : User]
Text == [phone : Phone, to : User]

\* A request for a code: the row it inserts or changes, and the new code.
Sending == [kind : {"send"}, pc : {"generated", "flushed", "texted"},
            user : User, phone : Phone, row : Code, code : Code]

\* A verification whose code was accepted; for an address, the flag it loaded.
Verifying == [kind : {"account"}, user : User]
             \cup [kind : {"address"}, user : Addressee, loaded : BOOLEAN]

\* An edit of an address: the number in the form, and the row as it was loaded.
Address == [phone : Phone, confirmed : BOOLEAN]
Editing == [kind : {"edit"}, user : Addressee, phone : Phone, old : Address]

TypeOK ==
    /\ DOMAIN sms \subseteq Code
    /\ \A r \in DOMAIN sms : sms[r] \in Row
    /\ issued \in 0..MaxCodes
    /\ expired \in 0..issued
    /\ DOMAIN texts \subseteq Code
    /\ \A c \in DOMAIN texts : texts[c] \in Text
    /\ excused \subseteq Code
    /\ last \in [Phone -> 0..MaxCodes]
    /\ accounts \subseteq User
    /\ address \in [Addressee -> Address]
    /\ proved \subseteq User \X Phone
    /\ astray \subseteq Addressee
    /\ req \in [Slot -> {Idle} \cup Sending \cup Verifying \cup Editing]

\* Addresses exist; nobody has asked for a code yet.
Init ==
    /\ sms = [r \in {} |-> 0]
    /\ issued = 0
    /\ expired = 0
    /\ texts = [c \in {} |-> 0]
    /\ excused = {}
    /\ last = [p \in Phone |-> 0]
    /\ accounts = {}
    /\ address \in [Addressee -> [phone : Phone, confirmed : {FALSE}]]
    /\ proved = {}
    /\ astray = {}
    /\ req = [t \in Slot |-> Idle]

-----------------------------------------------------------------------------
InFlight(t) == req[t] # Idle

Rows(p) == {r \in DOMAIN sms : sms[r].phone = p}

\* The row with the latest insert_date.
IsNewest(p, r) == /\ r \in Rows(p)
                  /\ \A s \in Rows(p) : sms[s].code <= sms[r].code

Fresh(c) == c > expired

\* Another transaction has written the row and not committed yet.
Locked(t, r) == \E u \in Slot \ {t} : /\ req[u].kind = "send"
                                      /\ req[u].pc # "generated"
                                      /\ req[u].row = r

-----------------------------------------------------------------------------
(* Sending a code: send_verification_sms.                                  *)

Session(u, p, r, c) == [kind |-> "send", pc |-> "generated", user |-> u,
                        phone |-> p, row |-> r, code |-> c]

\* The next code is excused if another request for the number is at work.
Excusing(t, p) == IF \E u \in Slot \ {t} : req[u].kind = "send" /\ req[u].phone = p
                  THEN excused \cup {issued + 1} ELSE excused

\* Mutant: a second code is drawn for the text.
GeneratedTwice(t, u, p, r) ==
    /\ issued < MaxCodes
    /\ issued' = issued + 2
    /\ excused' = Excusing(t, p)
    /\ req' = [req EXCEPT ![t] = Session(u, p, r, issued + 1)]
    /\ UNCHANGED <<sms, expired, texts, last>>

Generated(t, u, p, r) ==
    /\ issued < MaxCodes
    /\ issued' = issued + 1
    /\ excused' = Excusing(t, p)
    /\ req' = [req EXCEPT ![t] = Session(u, p, r, issued + 1)]
    /\ UNCHANGED <<sms, expired, texts, last>>

\* Mutant: a fresh code is replaced as an expired one is.
NewCodeAlways(t, u, p) ==
    \/ /\ Rows(p) = {}
       /\ Generated(t, u, p, issued + 1)
    \/ \E r \in Rows(p) : IsNewest(p, r) /\ Generated(t, u, p, r)

\* NotSent: a row of its own.  Expired: a new code for the newest row, whoever
\* it was made for.
NewCode(t, u, p) ==
    \/ /\ Rows(p) = {}
       /\ Generated(t, u, p, issued + 1)
    \/ \E r \in Rows(p) : /\ IsNewest(p, r)
                          /\ ~Fresh(sms[r].code)
                          /\ Generated(t, u, p, r)

\* Sign-in, registration and reset of the password.  While the newest code is
\* fresh nothing is written and nothing sent.
AskForAccount(t, u) ==
    /\ ~InFlight(t)
    /\ NewCode(t, u, OwnPhone[u])
    /\ UNCHANGED ownerVars

\* profile_phone_resend_code: of the number in the link, whatever the address has.
Resend(t, u, p) ==
    /\ ~InFlight(t)
    /\ NewCode(t, u, p)
    /\ UNCHANGED ownerVars

\* profile_phone_numbers_verify: of an address not confirmed, by its own number.
AskForAddress(t, u) ==
    /\ ~InFlight(t)
    /\ ~address[u].confirmed
    /\ NewCode(t, u, address[u].phone)
    /\ UNCHANGED ownerVars

InState(t, kind, pc) == req[t].kind = kind /\ req[t].pc = pc

Goto(t, pc) == req' = [req EXCEPT ![t].pc = pc]

\* Mutant: nothing is flushed before the text is sent, so no lock is waited for.
FlushLater(t) ==
    /\ InState(t, "send", "generated")
    /\ Goto(t, "flushed")
    /\ UNCHANGED <<codeVars, ownerVars>>

\* The flush writes the row and locks it; it waits for whoever has it locked.
Flush(t) ==
    /\ InState(t, "send", "generated")
    /\ ~Locked(t, req[t].row)
    /\ Goto(t, "flushed")
    /\ UNCHANGED <<codeVars, ownerVars>>

\* The sender's answer is dropped, and so is an error on its way: a text that
\* is lost is one the customer never enters.
SendText(t) ==
    LET s == req[t] IN
    /\ InState(t, "send", "flushed")
    /\ texts' = [c \in DOMAIN texts \cup {s.code} |->
                    IF c = s.code THEN [phone |-> s.phone, to |-> s.user]
                                  ELSE texts[c]]
    /\ last' = [last EXCEPT ![s.phone] = s.code]
    /\ Goto(t, "texted")
    /\ UNCHANGED <<sms, issued, expired, excused, ownerVars>>

\* An update leaves the row's owner alone, an insert sets it.
Stored(s) == [phone |-> s.phone, code |-> s.code,
              by |-> IF s.row \in DOMAIN sms THEN sms[s.row].by ELSE s.user]

\* Mutant: the transaction commits before the text is sent.
CommitCodeUnsent(t) ==
    LET s == req[t] IN
    /\ InState(t, "send", "flushed")
    /\ sms' = [r \in DOMAIN sms \cup {s.row} |->
                  IF r = s.row THEN Stored(s) ELSE sms[r]]
    /\ req' = [req EXCEPT ![t] = Idle]
    /\ UNCHANGED <<issued, expired, texts, excused, last, ownerVars>>

CommitCode(t) ==
    LET s == req[t] IN
    /\ InState(t, "send", "texted")
    /\ sms' = [r \in DOMAIN sms \cup {s.row} |->
                  IF r = s.row THEN Stored(s) ELSE sms[r]]
    /\ req' = [req EXCEPT ![t] = Idle]
    /\ UNCHANGED <<issued, expired, texts, excused, last, ownerVars>>

\* Whatever stops the request rolls the row back; a text is not called back.
SendingFails(t) ==
    /\ req[t].kind = "send"
    /\ excused' = excused \cup {req[t].code}
    /\ last' = [p \in Phone |-> IF last[p] = req[t].code THEN 0 ELSE last[p]]
    /\ req' = [req EXCEPT ![t] = Idle]
    /\ UNCHANGED <<sms, issued, expired, texts, ownerVars>>

\* SMS_TTL passes for the oldest code.
Expire ==
    /\ expired < issued
    /\ expired' = expired + 1
    /\ UNCHANGED <<sms, issued, texts, excused, last, ownerVars, req>>

-----------------------------------------------------------------------------
(* Entering a code: verify_sms_code and what its callers do with it.       *)

Received(p) == {c \in DOMAIN texts : texts[c].phone = p}

Accepted(u, p, c) == \E r \in Rows(p) : /\ IsNewest(p, r)
                                        /\ sms[r].code = c
                                        /\ sms[r].by = u
                                        /\ Fresh(c)

\* The customer enters a code they received; a wrong one changes nothing.
Enter(t, u, p, session) ==
    /\ ~InFlight(t)
    /\ \E c \in Received(p) : Accepted(u, p, c)
    /\ proved' = proved \cup {<<u, p>>}
    /\ req' = [req EXCEPT ![t] = session]
    /\ UNCHANGED <<codeVars, accounts, address>>

EnterForAccount(t, u) ==
    /\ Enter(t, u, OwnPhone[u], [kind |-> "account", user |-> u])
    /\ UNCHANGED astray

\* A request of the user about the address is at work on it.
AtWork(kind, u) == \E t \in Slot : req[t].kind = kind /\ req[t].user = u

\* The number is that of the page, the address is loaded by its id.
EnterForAddress(t, u, p) ==
    /\ Enter(t, u, p, [kind |-> "address", user |-> u, loaded |-> address[u].confirmed])
    /\ astray' = IF p # address[u].phone \/ AtWork("edit", u) THEN astray \cup {u}
                                                              ELSE astray

Done(t) == req' = [req EXCEPT ![t] = Idle]

CommitAccount(t) ==
    /\ req[t].kind = "account"
    /\ accounts' = accounts \cup {req[t].user}
    /\ Done(t)
    /\ UNCHANGED <<codeVars, address, proved, astray>>

\* The flag is written only if it was not set when the address was loaded.
CommitAddress(t) ==
    LET s == req[t] IN
    /\ s.kind = "address"
    /\ address' = IF s.loaded THEN address
                  ELSE [address EXCEPT ![s.user].confirmed = TRUE]
    /\ Done(t)
    /\ UNCHANGED <<codeVars, accounts, proved, astray>>

RequestFails(t) ==
    /\ req[t].kind \in {"account", "address", "edit"}
    /\ Done(t)
    /\ UNCHANGED <<codeVars, ownerVars>>

-----------------------------------------------------------------------------
(* profile_address_edit_submit.                                            *)

\* The address is loaded and compared with the form.
LoadAddress(t, u, p) ==
    /\ ~InFlight(t)
    /\ req' = [req EXCEPT ![t] = [kind |-> "edit", user |-> u, phone |-> p,
                                  old |-> address[u]]]
    /\ astray' = IF AtWork("address", u) THEN astray \cup {u} ELSE astray
    /\ UNCHANGED <<codeVars, accounts, address, proved>>

\* Mutant: the edit keeps the flag.
EditedKeepsFlag(s) == [phone |-> s.phone, confirmed |-> s.old.confirmed]

\* Another phone number is not confirmed.
Edited(s) == [phone |-> s.phone,
              confirmed |-> s.old.confirmed /\ s.phone = s.old.phone]

\* An assignment writes its column only if it changes what was loaded.
Written(loaded, new, stored) == IF new = loaded THEN stored ELSE new

CommitEdit(t) ==
    LET s == req[t]
        now == address[s.user] IN
    /\ s.kind = "edit"
    /\ address' = [address EXCEPT ![s.user] =
            [phone     |-> Written(s.old.phone, Edited(s).phone, now.phone),
             confirmed |-> Written(s.old.confirmed, Edited(s).confirmed, now.confirmed)]]
    /\ Done(t)
    /\ UNCHANGED <<codeVars, accounts, proved, astray>>

-----------------------------------------------------------------------------
Progress(t) == \/ Flush(t)
               \/ SendText(t)
               \/ CommitCode(t)
               \/ CommitAccount(t)
               \/ CommitAddress(t)
               \/ CommitEdit(t)

Account(t, u) == AskForAccount(t, u) \/ EnterForAccount(t, u)

AddressBook(t, u) == \/ AskForAddress(t, u)
                     \/ \E p \in Phone : \/ Resend(t, u, p)
                                        \/ EnterForAddress(t, u, p)
                                        \/ LoadAddress(t, u, p)

Next == \/ \E t \in Slot : \/ \E u \in User : Account(t, u)
                           \/ \E u \in Addressee : AddressBook(t, u)
                           \/ Progress(t)
                           \/ SendingFails(t)
                           \/ RequestFails(t)
        \/ Expire

Spec == Init /\ [][Next]_vars

-----------------------------------------------------------------------------
(* Properties.                                                             *)

\* The text a customer got last carries the code that is accepted: of a phone
\* number with one row, as soon as the request that sent the text has
\* committed.  Only the lock the flush takes makes it so.
LatestTextCounts ==
    \A p \in Phone :
        LET c == last[p] IN
        (/\ c # 0
         /\ \A t \in Slot : ~(req[t].kind = "send" /\ req[t].code = c)
         /\ Cardinality(Rows(p)) = 1) => \A r \in Rows(p) : sms[r].code = c

\* An account whose number counts as confirmed is one whose owner entered a code
\* sent to that number, and behind a confirmed address there is a code its owner
\* received.  It was for the number the address has, however edits, new codes and
\* verifications interleave, unless the customer has entered a code for another
\* number into the page, or edited the address while a verification of it ran.
ConfirmedWasProved ==
    /\ \A u \in accounts : <<u, OwnPhone[u]>> \in proved
    /\ \A u \in Addressee : address[u].confirmed =>
          /\ \E p \in Phone : <<u, p>> \in proved
          /\ u \notin astray => <<u, address[u].phone>> \in proved

\* Within the lifetime of a code a phone number gets one text, and one more for
\* each request that overlapped and each one that was rolled back - although
\* an older code may replace a newer one and makes the row expire early.
TextsAreFew ==
    \A c, d \in DOMAIN texts \ excused :
        texts[c].phone = texts[d].phone /\ Fresh(c) /\ Fresh(d) => c = d

\* The code sent to a customer is refused to them for its owner only if
\* another customer asked for a code for the same phone number before.
OwnCodeIsAccepted ==
    \A p \in Phone : \A r \in Rows(p) :
        LET c == sms[r].code IN
        c \in DOMAIN texts /\
        (sms[r].by # texts[c].to =>
            \E d \in DOMAIN texts : d < c /\ texts[d].phone = p /\ texts[d].to = sms[r].by)
=============================================================================
