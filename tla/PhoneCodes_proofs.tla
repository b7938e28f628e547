--------------------------- MODULE PhoneCodes_proofs ---------------------------
(***************************************************************************)
(* What is confirmed was proved, the latest text has the code that counts, *)
(* and a code is refused to its owner for one reason only: for any users,  *)
(* phone numbers, addresses, requests and bounds.                          *)
(***************************************************************************)
EXTENDS PhoneCodes, FiniteSetTheorems, TLAPS

\* Slot t goes on to s, the others stay.
Moves(t, s) == /\ req'[t] = s
               /\ \A u \in Slot \ {t} : req'[u] = req[u]

Sends(t) == req[t].kind = "send"

-----------------------------------------------------------------------------
(* Types.                                                                  *)

Sessions == {Idle} \cup Sending \cup Verifying \cup Editing

\* The kind of a session tells the set it is from.
LEMMA Kinds ==
    ASSUME NEW s \in Sessions
    PROVE  /\ s.kind = "send" => s \in Sending
           /\ s.kind = "account" => s \in [kind : {"account"}, user : User]
           /\ s.kind = "address" =>
                 s \in [kind : {"address"}, user : Addressee, loaded : BOOLEAN]
           /\ s.kind = "edit" => s \in Editing
           /\ s.kind \in {"account", "address", "edit"} => s # Idle
BY DEF Sessions, Idle, Sending, Verifying, Editing

LEMMA CodesAreNumbers == Code \subseteq Nat \ {0} /\ \A c \in Code : c <= MaxCodes
BY BoundsType DEF Code

LEMMA SlotTypes ==
    ASSUME TypeOK, NEW t \in Slot, NEW s \in Sessions, req' = [req EXCEPT ![t] = s]
    PROVE  Moves(t, s) /\ req' \in [Slot -> Sessions]
BY DEF TypeOK, Moves, Sessions

LEMMA InitType == Init => TypeOK
<1> SUFFICES ASSUME Init PROVE TypeOK
  OBVIOUS
<1>1. /\ DOMAIN sms \subseteq Code /\ \A r \in DOMAIN sms : sms[r] \in Row
      /\ DOMAIN texts \subseteq Code /\ \A c \in DOMAIN texts : texts[c] \in Text
  BY DEF Init
<1>2. issued \in 0..MaxCodes /\ expired \in 0..issued
  BY BoundsType DEF Init
<1>3. last \in [Phone -> 0..MaxCodes] /\ excused \subseteq Code
  BY BoundsType DEF Init
<1>4. address \in [Addressee -> Address]
  BY DEF Init, Address
<1>5. accounts \subseteq User
  BY DEF Init
<1>6. proved \subseteq User \X Phone /\ astray \subseteq Addressee
  BY DEF Init
<1>7. req \in [Slot -> {Idle} \cup Sending \cup Verifying \cup Editing]
  BY DEF Init
<1> QED BY <1>1, <1>2, <1>3, <1>4, <1>5, <1>6, <1>7 DEF TypeOK

\* The variables of the codes.
CodeTypes ==
    /\ DOMAIN sms \subseteq Code
    /\ \A r \in DOMAIN sms : sms[r] \in Row
    /\ issued \in 0..MaxCodes
    /\ expired \in 0..issued
    /\ DOMAIN texts \subseteq Code
    /\ \A c \in DOMAIN texts : texts[c] \in Text
    /\ excused \subseteq Code
    /\ last \in [Phone -> 0..MaxCodes]

OwnerTypes ==
    /\ accounts \subseteq User
    /\ address \in [Addressee -> Address]
    /\ proved \subseteq User \X Phone
    /\ astray \subseteq Addressee

LEMMA TypeParts ==
    TypeOK <=> /\ CodeTypes /\ OwnerTypes
               /\ req \in [Slot -> Sessions]
BY DEF TypeOK, CodeTypes, OwnerTypes, Sessions

LEMMA PartsMakeType ==
    ASSUME CodeTypes', OwnerTypes', req' \in [Slot -> Sessions]
    PROVE  TypeOK'
BY DEF TypeOK, CodeTypes, OwnerTypes, Sessions

LEMMA CodesStay ==
    CodeTypes /\ UNCHANGED codeVars => CodeTypes'
BY DEF CodeTypes, codeVars

LEMMA OwnersStay ==
    OwnerTypes /\ UNCHANGED ownerVars => OwnerTypes'
BY DEF OwnerTypes, ownerVars

\* A new code for a row.
LEMMA GeneratedType ==
    ASSUME TypeOK, NEW t \in Slot, NEW u \in User, NEW p \in Phone, NEW r,
           r \in DOMAIN sms \/ r = issued + 1, Generated(t, u, p, r)
    PROVE  /\ CodeTypes' /\ req' \in [Slot -> Sessions]
           /\ Moves(t, Session(u, p, r, issued + 1))
<1>1. issued + 1 \in Code /\ r \in Code
  BY BoundsType DEF Generated, TypeOK, Code
<1>2. Session(u, p, r, issued + 1) \in Sessions
  BY <1>1 DEF Session, Sessions, Sending
<1>3. CodeTypes'
  <2>1. issued' \in 0..MaxCodes /\ expired \in 0..issued'
    BY BoundsType DEF Generated, TypeOK
  <2>2. excused' \subseteq Code
    BY <1>1 DEF Generated, Excusing, TypeOK
  <2> QED BY <2>1, <2>2, TypeParts, PartsMakeType DEF Generated, CodeTypes
<1> QED BY <1>2, <1>3, SlotTypes DEF Generated

LEMMA NewCodeType ==
    ASSUME TypeOK, NEW t \in Slot, NEW u \in User, NEW p \in Phone, NewCode(t, u, p)
    PROVE  CodeTypes' /\ req' \in [Slot -> Sessions]
<1>1. ASSUME Generated(t, u, p, issued + 1)
      PROVE  CodeTypes' /\ req' \in [Slot -> Sessions]
  <2>1. PICK r : r = issued + 1
    OBVIOUS
  <2> QED BY <1>1, <2>1, GeneratedType
<1>2. ASSUME NEW r \in Rows(p), Generated(t, u, p, r)
      PROVE  CodeTypes' /\ req' \in [Slot -> Sessions]
  BY <1>2, GeneratedType DEF Rows
<1> QED BY <1>1, <1>2 DEF NewCode

LEMMA AskType ==
    ASSUME TypeOK, NEW t \in Slot, NEW u \in User,
           \/ AskForAccount(t, u)
           \/ u \in Addressee /\ (AskForAddress(t, u) \/ \E p \in Phone : Resend(t, u, p))
    PROVE  TypeOK'
<1>1. CASE AskForAccount(t, u)
  <2>1. PICK p \in Phone : p = OwnPhone[u]
    BY OwnPhoneType
  <2> QED BY <1>1, <2>1, NewCodeType, TypeParts, PartsMakeType, OwnersStay DEF AskForAccount
<1>2. ASSUME u \in Addressee, NEW p \in Phone, Resend(t, u, p) PROVE TypeOK'
  BY <1>2, NewCodeType, TypeParts, PartsMakeType, OwnersStay DEF Resend
<1>3. ASSUME u \in Addressee, AskForAddress(t, u) PROVE TypeOK'
  <2>1. PICK p \in Phone : p = address[u].phone
    BY <1>3 DEF TypeOK, Address
  <2> QED BY <1>3, <2>1, NewCodeType, TypeParts, PartsMakeType, OwnersStay DEF AskForAddress
<1> QED BY <1>1, <1>2, <1>3

LEMMA FlushType ==
    ASSUME TypeOK, NEW t \in Slot, Flush(t)
    PROVE  TypeOK' /\ Moves(t, [req[t] EXCEPT !.pc = "flushed"])
<1>1. req[t] \in Sending
  BY Kinds, TypeParts, PartsMakeType DEF Flush, InState
<1>2. [req[t] EXCEPT !.pc = "flushed"] \in Sessions
  BY <1>1 DEF Sessions, Sending
<1>3. req' = [req EXCEPT ![t] = [req[t] EXCEPT !.pc = "flushed"]]
  BY DEF Flush, Goto
<1>4. Moves(t, [req[t] EXCEPT !.pc = "flushed"]) /\ req' \in [Slot -> Sessions]
  BY <1>2, <1>3 DEF TypeOK, Sessions, Moves
<1> QED BY <1>4, TypeParts, PartsMakeType, CodesStay, OwnersStay DEF Flush

LEMMA SendTextType ==
    ASSUME TypeOK, NEW t \in Slot, SendText(t)
    PROVE  TypeOK' /\ Moves(t, [req[t] EXCEPT !.pc = "texted"])
<1>1. req[t] \in Sending
  BY Kinds, TypeParts, PartsMakeType DEF SendText, InState
<1>2. [req[t] EXCEPT !.pc = "texted"] \in Sessions
  BY <1>1 DEF Sessions, Sending
<1>3. req' = [req EXCEPT ![t] = [req[t] EXCEPT !.pc = "texted"]]
  BY DEF SendText, Goto
<1>4. Moves(t, [req[t] EXCEPT !.pc = "texted"]) /\ req' \in [Slot -> Sessions]
  BY <1>2, <1>3 DEF TypeOK, Sessions, Moves
<1>5. /\ req[t].code \in Code /\ req[t].phone \in Phone
      /\ [phone |-> req[t].phone, to |-> req[t].user] \in Text
  BY <1>1 DEF Sending, Text
<1>6. DOMAIN texts' \subseteq Code /\ \A c \in DOMAIN texts' : texts'[c] \in Text
  BY <1>5 DEF SendText, TypeOK
<1>7. last' \in [Phone -> 0..MaxCodes]
  <2>1. req[t].code \in 0..MaxCodes
    BY <1>5, BoundsType DEF Code
  <2>2. last' = [last EXCEPT ![req[t].phone] = req[t].code]
    BY DEF SendText
  <2> QED BY <1>5, <2>1, <2>2 DEF TypeOK
<1>8. CodeTypes'
  BY <1>6, <1>7, TypeParts, PartsMakeType DEF SendText, CodeTypes
<1> QED BY <1>4, <1>8, TypeParts, PartsMakeType, OwnersStay DEF SendText

LEMMA CommitCodeType ==
    ASSUME TypeOK, NEW t \in Slot, CommitCode(t)
    PROVE  TypeOK' /\ Moves(t, Idle)
<1>1. req[t] \in Sending
  BY Kinds, TypeParts, PartsMakeType DEF CommitCode, InState
<1>2. req[t].row \in Code /\ Stored(req[t]) \in Row
  BY <1>1 DEF Stored, Row, Sending, TypeOK
<1>3. DOMAIN sms' \subseteq Code /\ \A r \in DOMAIN sms' : sms'[r] \in Row
  BY <1>2 DEF CommitCode, TypeOK
<1>4. CodeTypes'
  BY <1>3, TypeParts, PartsMakeType DEF CommitCode, CodeTypes
<1>5. Moves(t, Idle) /\ req' \in [Slot -> Sessions]
  BY SlotTypes DEF CommitCode, Sessions
<1> QED BY <1>4, <1>5, TypeParts, PartsMakeType, OwnersStay DEF CommitCode

LEMMA SendingFailsType ==
    ASSUME TypeOK, NEW t \in Slot, SendingFails(t)
    PROVE  TypeOK' /\ Moves(t, Idle)
<1>1. /\ last' \in [Phone -> 0..MaxCodes]
      /\ excused' \subseteq Code
  <2>1. req[t].code \in Code
    BY Kinds, TypeParts DEF SendingFails, Sending
  <2> QED BY <2>1, BoundsType DEF SendingFails, TypeOK
<1>2. CodeTypes'
  BY <1>1, TypeParts, PartsMakeType DEF SendingFails, CodeTypes
<1>3. Moves(t, Idle) /\ req' \in [Slot -> Sessions]
  BY SlotTypes DEF SendingFails, Sessions
<1> QED BY <1>2, <1>3, TypeParts, PartsMakeType, OwnersStay DEF SendingFails

LEMMA ExpireType ==
    ASSUME TypeOK, Expire
    PROVE  TypeOK'
<1>1. expired' \in 0..issued
  BY DEF Expire, TypeOK
<1>2. CodeTypes'
  BY <1>1, TypeParts, PartsMakeType DEF Expire, CodeTypes
<1> QED BY <1>2, TypeParts, PartsMakeType, OwnersStay DEF Expire

\* A code is entered.
LEMMA EnterType ==
    ASSUME TypeOK, NEW t \in Slot, NEW u \in User, NEW p \in Phone, NEW s \in Sessions,
           Enter(t, u, p, s), astray' \subseteq Addressee
    PROVE  TypeOK' /\ Moves(t, s)
<1>1. OwnerTypes'
  BY TypeParts, PartsMakeType DEF Enter, OwnerTypes
<1>2. Moves(t, s) /\ req' \in [Slot -> Sessions]
  BY SlotTypes DEF Enter
<1> QED BY <1>1, <1>2, TypeParts, PartsMakeType, CodesStay DEF Enter

LEMMA EnterForAccountType ==
    ASSUME TypeOK, NEW t \in Slot, NEW u \in User, EnterForAccount(t, u)
    PROVE  TypeOK' /\ Moves(t, [kind |-> "account", user |-> u])
<1>1. PICK p \in Phone : p = OwnPhone[u]
  BY OwnPhoneType
<1>2. [kind |-> "account", user |-> u] \in Sessions
  BY DEF Sessions, Verifying
<1>3. astray' \subseteq Addressee
  BY DEF EnterForAccount, TypeOK
<1> QED BY <1>1, <1>2, <1>3, EnterType DEF EnterForAccount

LEMMA EnterForAddressType ==
    ASSUME TypeOK, NEW t \in Slot, NEW u \in Addressee, NEW p \in Phone,
           EnterForAddress(t, u, p)
    PROVE  /\ TypeOK'
           /\ Moves(t, [kind |-> "address", user |-> u, loaded |-> address[u].confirmed])
<1>1. PICK b \in BOOLEAN : b = address[u].confirmed
  BY DEF TypeOK, Address
<1>2. [kind |-> "address", user |-> u, loaded |-> b] \in Sessions
  BY DEF Sessions, Verifying
<1>3. astray' \subseteq Addressee
  BY DEF EnterForAddress, TypeOK
<1>4. u \in User
  BY AddresseeType
<1> QED BY <1>1, <1>2, <1>3, <1>4, EnterType DEF EnterForAddress

LEMMA CommitAccountType ==
    ASSUME TypeOK, NEW t \in Slot, CommitAccount(t)
    PROVE  TypeOK' /\ Moves(t, Idle)
<1>1. req[t].user \in User
  BY Kinds, TypeParts, PartsMakeType DEF CommitAccount
<1>2. OwnerTypes'
  BY <1>1, TypeParts, PartsMakeType DEF CommitAccount, OwnerTypes
<1>3. Moves(t, Idle) /\ req' \in [Slot -> Sessions]
  BY SlotTypes DEF CommitAccount, Done, Sessions
<1> QED BY <1>2, <1>3, TypeParts, PartsMakeType, CodesStay DEF CommitAccount

LEMMA CommitAddressType ==
    ASSUME TypeOK, NEW t \in Slot, CommitAddress(t)
    PROVE  TypeOK' /\ Moves(t, Idle)
<1>1. req[t].user \in Addressee
  BY Kinds, TypeParts, PartsMakeType DEF CommitAddress
<1>2. address' \in [Addressee -> Address]
  BY <1>1 DEF CommitAddress, TypeOK, Address
<1>3. OwnerTypes'
  BY <1>2, TypeParts, PartsMakeType DEF CommitAddress, OwnerTypes
<1>4. Moves(t, Idle) /\ req' \in [Slot -> Sessions]
  BY SlotTypes DEF CommitAddress, Done, Sessions
<1> QED BY <1>3, <1>4, TypeParts, PartsMakeType, CodesStay DEF CommitAddress

LEMMA RequestFailsType ==
    ASSUME TypeOK, NEW t \in Slot, RequestFails(t)
    PROVE  TypeOK' /\ Moves(t, Idle)
<1>1. Moves(t, Idle) /\ req' \in [Slot -> Sessions]
  BY SlotTypes DEF RequestFails, Done, Sessions
<1> QED BY <1>1, TypeParts, PartsMakeType, CodesStay, OwnersStay DEF RequestFails

LEMMA LoadAddressType ==
    ASSUME TypeOK, NEW t \in Slot, NEW u \in Addressee, NEW p \in Phone, LoadAddress(t, u, p)
    PROVE  /\ TypeOK'
           /\ Moves(t, [kind |-> "edit", user |-> u, phone |-> p, old |-> address[u]])
<1>1. PICK a \in Address : a = address[u]
  BY DEF TypeOK
<1>2. [kind |-> "edit", user |-> u, phone |-> p, old |-> a] \in Sessions
  BY DEF Sessions, Editing
<1>3. OwnerTypes'
  BY TypeParts, PartsMakeType DEF LoadAddress, OwnerTypes
<1> QED BY <1>1, <1>2, <1>3, SlotTypes, TypeParts, PartsMakeType, CodesStay DEF LoadAddress

LEMMA CommitEditType ==
    ASSUME TypeOK, NEW t \in Slot, CommitEdit(t)
    PROVE  TypeOK' /\ Moves(t, Idle)
<1>1. req[t] \in Editing
  BY Kinds, TypeParts, PartsMakeType DEF CommitEdit
<1>2. /\ req[t].user \in Addressee /\ req[t].phone \in Phone
      /\ req[t].old.phone \in Phone /\ req[t].old.confirmed \in BOOLEAN
  BY <1>1 DEF Editing, Address
<1>3. address' \in [Addressee -> Address]
  BY <1>2 DEF CommitEdit, TypeOK, Address, Written, Edited
<1>4. OwnerTypes'
  BY <1>3, TypeParts, PartsMakeType DEF CommitEdit, OwnerTypes
<1>5. Moves(t, Idle) /\ req' \in [Slot -> Sessions]
  BY SlotTypes DEF CommitEdit, Done, Sessions
<1> QED BY <1>4, <1>5, TypeParts, PartsMakeType, CodesStay DEF CommitEdit

LEMMA NextType == TypeOK /\ [Next]_vars => TypeOK'
<1> SUFFICES ASSUME TypeOK, [Next]_vars PROVE TypeOK'
  OBVIOUS
<1>1. ASSUME NEW t \in Slot, NEW u \in User, Account(t, u) PROVE TypeOK'
  BY <1>1, AskType, EnterForAccountType DEF Account
<1>2. ASSUME NEW t \in Slot, NEW u \in Addressee, AddressBook(t, u) PROVE TypeOK'
  <2>1. u \in User
    BY AddresseeType
  <2> QED BY <1>2, <2>1, AskType, EnterForAddressType, LoadAddressType DEF AddressBook
<1>3. ASSUME NEW t \in Slot, Progress(t) PROVE TypeOK'
  BY <1>3, FlushType, SendTextType, CommitCodeType, CommitAccountType, CommitAddressType,
     CommitEditType DEF Progress
<1>4. CASE UNCHANGED vars
  BY <1>4, TypeParts, PartsMakeType, CodesStay, OwnersStay DEF vars
<1> QED
  BY <1>1, <1>2, <1>3, <1>4, SendingFailsType, RequestFailsType, ExpireType DEF Next

LEMMA TypeInvariance == Spec => []TypeOK
<1> QED BY InitType, NextType, PTL DEF Spec

-----------------------------------------------------------------------------
(* What is confirmed was proved.                                           *)

OwnerKinds == {"account", "address", "edit"}

\* A code the user received was accepted; one for the address's number was.
Proven(u) == \E p \in Phone : <<u, p>> \in proved
ProvenNow(u) == <<u, address[u].phone>> \in proved

\* What a request of the owner's has behind it.  Of a customer who is not astray,
\* an address confirmed by now was confirmed when an edit of it was loaded.
Behind(s) ==
    /\ s.kind = "account" => <<s.user, OwnPhone[s.user]>> \in proved
    /\ s.kind = "address" => /\ Proven(s.user)
                             /\ s.user \notin astray => ProvenNow(s.user)
    /\ s.kind = "edit" /\ s.user \notin astray /\ address[s.user].confirmed =>
           s.old.confirmed

\* Who edits an address while it is verified is astray.
Overlap == \A t, v \in Slot : /\ req[t].kind = "edit" /\ req[v].kind = "address"
                              /\ req[t].user = req[v].user
                              => req[t].user \in astray

Owned == /\ ConfirmedWasProved
         /\ \A t \in Slot : Behind(req[t])
         /\ Overlap

\* A step of t that is or becomes none of the owner's.
LEMMA OwnedQuiet ==
    ASSUME TypeOK, Owned, NEW t \in Slot, NEW s, Moves(t, s), s.kind \notin OwnerKinds,
           UNCHANGED ownerVars
    PROVE  Owned'
<1>1. ASSUME NEW v \in Slot, req'[v].kind \in OwnerKinds
      PROVE  v # t /\ req'[v] = req[v]
  BY <1>1 DEF Moves
<1>2. ConfirmedWasProved'
  BY DEF Owned, ConfirmedWasProved, ownerVars
<1>3. ASSUME NEW v \in Slot PROVE Behind(req[v])'
  <2>1. Behind(req[v])
    BY DEF Owned
  <2>2. req'[v].kind \in OwnerKinds => req'[v] = req[v]
    BY <1>1
  <2> QED BY <2>1, <2>2 DEF Behind, Proven, ProvenNow, OwnerKinds, ownerVars
<1>4. Overlap'
  BY <1>1 DEF Owned, Overlap, OwnerKinds, ownerVars
<1> QED BY <1>2, <1>3, <1>4 DEF Owned

\* A code is asked for.
LEMMA NewCodeMoves ==
    ASSUME TypeOK, NEW t \in Slot, NEW u \in User, NEW p \in Phone, NewCode(t, u, p)
    PROVE  \E r \in Code : /\ (r = issued + 1 /\ Rows(p) = {}) \/ r \in Rows(p)
                           /\ Generated(t, u, p, r)
                           /\ Moves(t, Session(u, p, r, issued + 1))
<1>1. ASSUME Generated(t, u, p, issued + 1), Rows(p) = {}
      PROVE  \E r \in Code : /\ (r = issued + 1 /\ Rows(p) = {}) \/ r \in Rows(p)
                             /\ Generated(t, u, p, r)
                             /\ Moves(t, Session(u, p, r, issued + 1))
  <2>1. PICK r : r = issued + 1
    OBVIOUS
  <2>2. r \in Code
    BY <1>1, <2>1, BoundsType DEF Generated, TypeOK, Code
  <2> QED BY <1>1, <2>1, <2>2, GeneratedType
<1>2. ASSUME NEW r \in Rows(p), Generated(t, u, p, r)
      PROVE  r \in Code /\ Moves(t, Session(u, p, r, issued + 1))
  BY <1>2, GeneratedType DEF Rows, TypeOK
<1> QED BY <1>1, <1>2 DEF NewCode

LEMMA OwnedAsk ==
    ASSUME TypeOK, Owned, NEW t \in Slot, NEW u \in User,
           \/ AskForAccount(t, u)
           \/ u \in Addressee /\ (AskForAddress(t, u) \/ \E p \in Phone : Resend(t, u, p))
    PROVE  Owned'
<1>1. ASSUME NEW p \in Phone, NewCode(t, u, p), UNCHANGED ownerVars
      PROVE  Owned'
  <2>1. PICK r \in Code : Moves(t, Session(u, p, r, issued + 1))
    BY <1>1, NewCodeMoves
  <2>2. Session(u, p, r, issued + 1).kind \notin OwnerKinds
    BY DEF Session, OwnerKinds
  <2> QED BY <1>1, <2>1, <2>2, OwnedQuiet
<1>2. CASE AskForAccount(t, u)
  <2>1. PICK p \in Phone : p = OwnPhone[u]
    BY OwnPhoneType
  <2> QED BY <1>1, <1>2, <2>1 DEF AskForAccount
<1>3. ASSUME NEW p \in Phone, Resend(t, u, p) PROVE Owned'
  BY <1>1, <1>3 DEF Resend
<1>4. ASSUME u \in Addressee, AskForAddress(t, u) PROVE Owned'
  <2>1. PICK p \in Phone : p = address[u].phone
    BY <1>4 DEF TypeOK, Address
  <2> QED BY <1>1, <1>4, <2>1 DEF AskForAddress
<1> QED BY <1>2, <1>3, <1>4

\* A request about a code goes on or ends.
LEMMA OwnedSend ==
    ASSUME TypeOK, Owned, NEW t \in Slot,
           Flush(t) \/ SendText(t) \/ CommitCode(t) \/ SendingFails(t) \/ RequestFails(t)
    PROVE  Owned'
<1>1. Idle.kind \notin OwnerKinds
  BY DEF Idle, OwnerKinds
<1>2. ASSUME req[t].kind = "send", NEW pc
      PROVE  [req[t] EXCEPT !.pc = pc].kind \notin OwnerKinds
  BY <1>2, Kinds, TypeParts DEF Sending, OwnerKinds
<1>3. CASE Flush(t)
  BY <1>2, <1>3, FlushType, OwnedQuiet DEF Flush, InState
<1>4. CASE SendText(t)
  BY <1>2, <1>4, SendTextType, OwnedQuiet DEF SendText, InState
<1>5. CASE CommitCode(t)
  BY <1>1, <1>5, CommitCodeType, OwnedQuiet DEF CommitCode
<1>6. CASE SendingFails(t)
  BY <1>1, <1>6, SendingFailsType, OwnedQuiet DEF SendingFails
<1>7. CASE RequestFails(t)
  BY <1>1, <1>7, RequestFailsType, OwnedQuiet DEF RequestFails
<1> QED BY <1>3, <1>4, <1>5, <1>6, <1>7

\* More proofs and more customers astray leave the other requests as they were.
LEMMA BehindGrows ==
    ASSUME Owned, NEW v \in Slot, req'[v] = req[v], address' = address,
           proved \subseteq proved', astray \subseteq astray'
    PROVE  Behind(req[v])'
<1>1. Behind(req[v])
  BY DEF Owned
<1> QED BY <1>1 DEF Behind, Proven, ProvenNow

LEMMA OwnedEnterAccount ==
    ASSUME TypeOK, Owned, NEW t \in Slot, NEW u \in User, EnterForAccount(t, u)
    PROVE  Owned'
<1>1. PICK s : s = [kind |-> "account", user |-> u] /\ Moves(t, s)
  BY EnterForAccountType
<1>2. s.kind = "account" /\ s.user = u
  BY <1>1
<1>3. /\ UNCHANGED <<accounts, address, astray>>
      /\ proved' = proved \cup {<<u, OwnPhone[u]>>}
  BY DEF EnterForAccount, Enter
<1>4. ConfirmedWasProved'
  BY <1>3 DEF Owned, ConfirmedWasProved
<1>5. ASSUME NEW v \in Slot PROVE Behind(req[v])'
  <2>1. CASE v = t
    BY <1>1, <1>2, <1>3, <2>1 DEF Moves, Behind
  <2>2. CASE v # t
    BY <1>1, <1>3, <2>2, BehindGrows DEF Moves
  <2> QED BY <2>1, <2>2
<1>6. Overlap'
  BY <1>1, <1>2, <1>3 DEF Owned, Overlap, Moves
<1> QED BY <1>4, <1>5, <1>6 DEF Owned

\* A code for the address is accepted: whoever entered one for another number,
\* or edits the address meanwhile, is astray.
LEMMA OwnedEnterAddress ==
    ASSUME TypeOK, Owned, NEW t \in Slot, NEW u \in Addressee, NEW p \in Phone,
           EnterForAddress(t, u, p)
    PROVE  Owned'
<1>1. PICK s : s = [kind |-> "address", user |-> u, loaded |-> address[u].confirmed]
               /\ Moves(t, s)
  BY EnterForAddressType
<1>2. s.kind = "address" /\ s.user = u
  BY <1>1
<1>3. /\ UNCHANGED <<accounts, address>>
      /\ proved' = proved \cup {<<u, p>>}
      /\ astray \subseteq astray'
      /\ p # address[u].phone \/ AtWork("edit", u) => u \in astray'
  BY DEF EnterForAddress, Enter
<1>4. ConfirmedWasProved'
  BY <1>3 DEF Owned, ConfirmedWasProved
<1>5. ASSUME NEW v \in Slot PROVE Behind(req[v])'
  <2>1. CASE v = t
    BY <1>1, <1>2, <1>3, <2>1 DEF Moves, Behind, Proven, ProvenNow
  <2>2. CASE v # t
    BY <1>1, <1>3, <2>2, BehindGrows DEF Moves
  <2> QED BY <2>1, <2>2
<1>6. Overlap'
  BY <1>1, <1>2, <1>3 DEF Owned, Overlap, Moves, AtWork
<1> QED BY <1>4, <1>5, <1>6 DEF Owned

LEMMA OwnedLoad ==
    ASSUME TypeOK, Owned, NEW t \in Slot, NEW u \in Addressee, NEW p \in Phone,
           LoadAddress(t, u, p)
    PROVE  Owned'
<1>1. PICK s : /\ s = [kind |-> "edit", user |-> u, phone |-> p, old |-> address[u]]
               /\ Moves(t, s)
  BY LoadAddressType
<1>2. s.kind = "edit" /\ s.user = u /\ s.old = address[u]
  BY <1>1
<1>3. /\ UNCHANGED <<accounts, address, proved>>
      /\ astray \subseteq astray'
      /\ AtWork("address", u) => u \in astray'
  BY DEF LoadAddress
<1>4. ConfirmedWasProved'
  BY <1>3 DEF Owned, ConfirmedWasProved
<1>5. ASSUME NEW v \in Slot PROVE Behind(req[v])'
  <2>1. CASE v = t
    BY <1>1, <1>2, <1>3, <2>1 DEF Moves, Behind
  <2>2. CASE v # t
    BY <1>1, <1>3, <2>2, BehindGrows DEF Moves
  <2> QED BY <2>1, <2>2
<1>6. Overlap'
  BY <1>1, <1>2, <1>3 DEF Owned, Overlap, Moves, AtWork
<1> QED BY <1>4, <1>5, <1>6 DEF Owned

\* The commits of t that set a flag or an address.
LEMMA OwnedCommitAccount ==
    ASSUME TypeOK, Owned, NEW t \in Slot, CommitAccount(t)
    PROVE  Owned'
<1>1. Moves(t, Idle) /\ Idle.kind = "idle"
  BY CommitAccountType DEF Idle
<1>2. UNCHANGED <<address, proved, astray>> /\ accounts' = accounts \cup {req[t].user}
  BY DEF CommitAccount
<1>3. <<req[t].user, OwnPhone[req[t].user]>> \in proved
  BY DEF CommitAccount, Owned, Behind
<1>4. ConfirmedWasProved'
  BY <1>2, <1>3 DEF Owned, ConfirmedWasProved
<1>5. ASSUME NEW v \in Slot PROVE Behind(req[v])'
  <2>1. CASE v = t
    BY <1>1, <2>1 DEF Moves, Behind
  <2>2. CASE v # t
    BY <1>1, <1>2, <2>2, BehindGrows DEF Moves
  <2> QED BY <2>1, <2>2
<1>6. Overlap'
  BY <1>1, <1>2 DEF Owned, Overlap, Moves
<1> QED BY <1>4, <1>5, <1>6 DEF Owned

\* The address of u changes: of those at work, only u's requests can tell.
LEMMA OwnedCommitAddress ==
    ASSUME TypeOK, Owned, NEW t \in Slot, NEW u \in Addressee, Moves(t, Idle),
           UNCHANGED <<accounts, proved, astray>>,
           \A w \in Addressee \ {u} : address'[w] = address[w],
           address'[u].confirmed =>
              Proven(u) /\ (u \notin astray => <<u, address'[u].phone>> \in proved),
           \A v \in Slot \ {t} : req[v].user = u =>
              /\ req[v].kind = "address" /\ u \notin astray =>
                    <<u, address'[u].phone>> \in proved
              /\ req[v].kind = "edit" /\ u \notin astray /\ address'[u].confirmed =>
                    req[v].old.confirmed
    PROVE  Owned'
<1>1. Idle.kind = "idle"
  BY DEF Idle
<1>2. ConfirmedWasProved'
  BY DEF Owned, ConfirmedWasProved, Proven
<1>3. ASSUME NEW v \in Slot PROVE Behind(req[v])'
  <2>1. CASE v = t
    BY <1>1, <2>1 DEF Moves, Behind
  <2>2. CASE v # t
    <3>1. req'[v] = req[v] /\ Behind(req[v])
      BY <2>2 DEF Moves, Owned
    <3>2. req[v].kind \in {"address", "edit"} => req[v].user \in Addressee
      BY Kinds, TypeParts DEF Editing
    <3>3. CASE req[v].kind = "account"
      BY <3>1, <3>3 DEF Behind
    <3>4. CASE req[v].kind = "address"
      BY <2>2, <3>1, <3>2, <3>4 DEF Behind, Proven, ProvenNow
    <3>5. CASE req[v].kind = "edit"
      BY <2>2, <3>1, <3>2, <3>5 DEF Behind
    <3> QED BY <3>1, <3>3, <3>4, <3>5 DEF Behind
  <2> QED BY <2>1, <2>2
<1>4. Overlap'
  BY <1>1 DEF Owned, Overlap, Moves
<1> QED BY <1>2, <1>3, <1>4 DEF Owned

LEMMA OwnedVerified ==
    ASSUME TypeOK, Owned, NEW t \in Slot, CommitAddress(t)
    PROVE  Owned'
<1>1. PICK u \in Addressee : u = req[t].user
  BY Kinds, TypeParts DEF CommitAddress
<1>2. /\ \A w \in Addressee \ {u} : address'[w] = address[w]
      /\ address'[u].phone = address[u].phone
  BY <1>1 DEF CommitAddress, TypeOK, Address
<1>3. Proven(u) /\ (u \notin astray => ProvenNow(u))
  BY <1>1 DEF CommitAddress, Owned, Behind
<1>4. ASSUME NEW v \in Slot, req[v].kind = "edit", req[v].user = u
      PROVE  u \in astray
  BY <1>1, <1>4 DEF CommitAddress, Owned, Overlap
<1> QED BY <1>1, <1>2, <1>3, <1>4, CommitAddressType, OwnedCommitAddress
        DEF CommitAddress, ProvenNow

\* Unless the customer is astray, the edit either leaves the number as it was or
\* leaves the address unconfirmed.
LEMMA OwnedEdited ==
    ASSUME TypeOK, Owned, NEW t \in Slot, CommitEdit(t)
    PROVE  Owned'
<1>1. PICK u \in Addressee : u = req[t].user
  BY Kinds, TypeParts DEF CommitEdit, Editing
<1>2. req[t].old.confirmed \in BOOLEAN /\ address[u].confirmed \in BOOLEAN
  BY <1>1, Kinds, TypeParts DEF CommitEdit, Editing, Address, OwnerTypes
<1>3. PICK old, new : old = req[t].old /\ new = Edited(req[t])
  OBVIOUS
<1>4. /\ \A w \in Addressee \ {u} : address'[w] = address[w]
      /\ address'[u].phone = Written(old.phone, new.phone, address[u].phone)
      /\ address'[u].confirmed = Written(old.confirmed, new.confirmed, address[u].confirmed)
  BY <1>1, <1>3 DEF CommitEdit, TypeOK
<1>5. new.phone # old.phone => new.confirmed = FALSE
  BY <1>3 DEF Edited
<1>6. new.phone = old.phone => new.confirmed = old.confirmed
  BY <1>2, <1>3 DEF Edited
<1>7. address'[u].confirmed => address[u].confirmed
  BY <1>2, <1>3, <1>4, <1>5, <1>6 DEF Written
<1>8. ASSUME u \notin astray, address'[u].confirmed
      PROVE  address'[u].phone = address[u].phone
  <2>1. old.confirmed
    BY <1>1, <1>3, <1>7, <1>8 DEF CommitEdit, Owned, Behind
  <2> QED BY <1>2, <1>3, <1>4, <1>5, <1>8, <2>1 DEF Written
<1>9. address'[u].confirmed =>
         Proven(u) /\ (u \notin astray => <<u, address'[u].phone>> \in proved)
  BY <1>7, <1>8 DEF Owned, ConfirmedWasProved, Proven
<1>10. ASSUME NEW v \in Slot \ {t}, req[v].user = u
       PROVE  /\ req[v].kind = "address" => u \in astray
              /\ req[v].kind = "edit" /\ u \notin astray /\ address'[u].confirmed =>
                    req[v].old.confirmed
  BY <1>1, <1>7, <1>10 DEF CommitEdit, Owned, Overlap, Behind
<1>11. Moves(t, Idle) /\ UNCHANGED <<accounts, proved, astray>>
  BY CommitEditType DEF CommitEdit
<1>12. \A w \in Addressee \ {u} : address'[w] = address[w]
  BY <1>4
<1> QED BY <1>9, <1>10, <1>11, <1>12, OwnedCommitAddress

LEMMA OwnedStays ==
    ASSUME Owned, UNCHANGED <<ownerVars, req>>
    PROVE  Owned'
<1>1. ConfirmedWasProved' /\ Overlap'
  BY DEF Owned, ConfirmedWasProved, Overlap, ownerVars
<1>2. \A v \in Slot : Behind(req[v])'
  BY BehindGrows DEF ownerVars
<1> QED BY <1>1, <1>2 DEF Owned

LEMMA OwnedNext == TypeOK /\ Owned /\ [Next]_vars => Owned'
<1> SUFFICES ASSUME TypeOK, Owned, [Next]_vars PROVE Owned'
  OBVIOUS
<1>1. ASSUME NEW t \in Slot, NEW u \in User, Account(t, u) PROVE Owned'
  BY <1>1, OwnedAsk, OwnedEnterAccount DEF Account
<1>2. ASSUME NEW t \in Slot, NEW u \in Addressee, AddressBook(t, u) PROVE Owned'
  <2>1. u \in User
    BY AddresseeType
  <2> QED BY <1>2, <2>1, OwnedAsk, OwnedEnterAddress, OwnedLoad DEF AddressBook
<1>3. ASSUME NEW t \in Slot, Progress(t) PROVE Owned'
  BY <1>3, OwnedSend, OwnedCommitAccount, OwnedVerified, OwnedEdited DEF Progress
<1>4. ASSUME NEW t \in Slot, SendingFails(t) \/ RequestFails(t) PROVE Owned'
  BY <1>4, OwnedSend
<1>5. CASE Expire
  BY <1>5, OwnedStays DEF Expire
<1>6. CASE UNCHANGED vars
  BY <1>6, OwnedStays DEF vars
<1> QED BY <1>1, <1>2, <1>3, <1>4, <1>5, <1>6 DEF Next

LEMMA OwnedInit == Init => Owned
<1> SUFFICES ASSUME Init PROVE Owned
  OBVIOUS
<1>1. accounts = {} /\ \A u \in Addressee : ~address[u].confirmed
  BY DEF Init
<1>2. \A t \in Slot : req[t].kind = "idle"
  BY DEF Init, Idle
<1> QED BY <1>1, <1>2 DEF Owned, ConfirmedWasProved, Behind, Overlap

-----------------------------------------------------------------------------
(* Which code counts.                                                      *)

\* The codes on their way are no row's yet and differ from each other; the
\* row of a request is one of its phone number, or yet to be inserted.
CodesApart ==
    /\ \A r \in DOMAIN sms : r <= sms[r].code /\ sms[r].code <= issued
    /\ \A t \in Slot : Sends(t) =>
          /\ req[t].row <= req[t].code /\ req[t].code <= issued
          /\ req[t].code \notin DOMAIN sms
          /\ \A r \in DOMAIN sms : sms[r].code # req[t].code
          /\ req[t].row \in DOMAIN sms => sms[req[t].row].phone = req[t].phone
          /\ req[t].row \notin DOMAIN sms => req[t].row = req[t].code
    /\ \A t, v \in Slot : Sends(t) /\ Sends(v) /\ req[t].code = req[v].code => t = v

\* One request at a time has flushed a row.
LocksHeld ==
    \A t, v \in Slot : /\ Sends(t) /\ req[t].pc # "generated"
                       /\ Sends(v) /\ req[v].pc # "generated"
                       /\ req[t].row = req[v].row
                       => t = v

\* No code is in a row before its text is out; a row keeps the owner its
\* first text went to.
Texted ==
    /\ \A t \in Slot : InState(t, "send", "texted") =>
          /\ req[t].code \in DOMAIN texts
          /\ texts[req[t].code].phone = req[t].phone
          /\ texts[req[t].code].to = req[t].user
    /\ \A r \in DOMAIN sms :
          /\ r \in DOMAIN texts /\ texts[r].phone = sms[r].phone /\ texts[r].to = sms[r].by
          /\ sms[r].code \in DOMAIN texts

\* The code of the latest text is in a row or about to be, and what is about
\* to be committed does not replace it.
Latest ==
    /\ \A p \in Phone : last[p] # 0 =>
          \/ \E t \in Slot : /\ InState(t, "send", "texted")
                             /\ req[t].phone = p /\ req[t].code = last[p]
          \/ \E r \in DOMAIN sms : sms[r].phone = p /\ sms[r].code = last[p]
    /\ \A t \in Slot : InState(t, "send", "texted") /\ req[t].row \in DOMAIN sms =>
          last[req[t].phone] # sms[req[t].row].code

CodesInv == CodesApart /\ LocksHeld /\ Texted /\ Latest

\* Nobody's request for a code moves.
LEMMA CodesQuiet ==
    ASSUME CodesInv, UNCHANGED <<sms, issued, texts, last>>,
           \A v \in Slot : req'[v] = req[v] \/ (~Sends(v) /\ req'[v].kind # "send")
    PROVE  CodesInv'
<1>1. \A v \in Slot : req'[v].kind = "send" => Sends(v) /\ req'[v] = req[v]
  BY DEF Sends
<1>2. \A v \in Slot : Sends(v) => req'[v] = req[v]
  BY DEF Sends
<1>3. CodesApart' /\ LocksHeld'
  BY <1>1 DEF CodesInv, CodesApart, LocksHeld, Sends
<1>4. Texted'
  BY <1>1 DEF CodesInv, Texted, InState
<1>5. Latest'
  BY <1>1, <1>2 DEF CodesInv, Latest, InState, Sends
<1> QED BY <1>3, <1>4, <1>5 DEF CodesInv

\* A code is generated.
LEMMA CodesAsk ==
    ASSUME TypeOK, CodesInv, NEW t \in Slot, NEW u \in User, NEW p \in Phone,
           ~InFlight(t), NewCode(t, u, p)
    PROVE  CodesInv'
<1>1. PICK r \in Code : /\ (r = issued + 1 /\ Rows(p) = {}) \/ r \in Rows(p)
                        /\ Generated(t, u, p, r)
                        /\ Moves(t, Session(u, p, r, issued + 1))
  BY NewCodeMoves
<1>2. UNCHANGED <<sms, texts, last>> /\ issued' = issued + 1 /\ issued \in Nat
  BY <1>1, BoundsType DEF Generated, TypeOK
<1>3. /\ req'[t].kind = "send" /\ req'[t].pc = "generated" /\ req'[t].phone = p
      /\ req'[t].row = r /\ req'[t].code = issued + 1
      /\ \A v \in Slot \ {t} : req'[v] = req[v]
  BY <1>1 DEF Moves, Session
<1>4. \A q \in DOMAIN sms : /\ q \in Nat /\ sms[q].code \in Nat
                            /\ q <= sms[q].code /\ sms[q].code <= issued
  BY CodesAreNumbers DEF TypeOK, Row, CodesInv, CodesApart
<1>5. issued + 1 \notin DOMAIN sms /\ \A q \in DOMAIN sms : sms[q].code # issued + 1
  BY <1>2, <1>4
<1>6. ASSUME NEW v \in Slot, Sends(v)
      PROVE  req[v].code \in Nat /\ req[v].code <= issued
  <2>1. req[v] \in Sending
    BY <1>6, Kinds, TypeParts DEF Sends
  <2> QED BY <1>6, <2>1, CodesAreNumbers DEF Sending, CodesInv, CodesApart
<1>7. /\ r <= issued + 1
      /\ r \in DOMAIN sms => sms[r].phone = p
      /\ r \notin DOMAIN sms => r = issued + 1
  BY <1>1, <1>2, <1>4, <1>5 DEF Rows
<1>8. CodesApart'
  <2>1. \A q \in DOMAIN sms' : q <= sms'[q].code /\ sms'[q].code <= issued'
    BY <1>2, <1>4
  <2>2. ASSUME NEW v \in Slot, req'[v].kind = "send"
        PROVE  /\ req'[v].row <= req'[v].code /\ req'[v].code <= issued'
               /\ req'[v].code \notin DOMAIN sms'
               /\ \A q \in DOMAIN sms' : sms'[q].code # req'[v].code
               /\ req'[v].row \in DOMAIN sms' => sms'[req'[v].row].phone = req'[v].phone
               /\ req'[v].row \notin DOMAIN sms' => req'[v].row = req'[v].code
    <3>1. CASE v = t
      BY <1>2, <1>3, <1>5, <1>7, <3>1
    <3>2. CASE v # t
      <4>1. req'[v] = req[v] /\ Sends(v)
        BY <1>3, <2>2, <3>2 DEF Sends
      <4> QED BY <1>2, <1>6, <4>1 DEF CodesInv, CodesApart
    <3> QED BY <3>1, <3>2
  <2>3. ASSUME NEW v \in Slot, NEW w \in Slot, req'[v].kind = "send", req'[w].kind = "send",
               req'[v].code = req'[w].code
        PROVE  v = w
    BY <1>2, <1>3, <1>6, <2>3 DEF CodesInv, CodesApart, Sends
  <2> QED BY <2>1, <2>2, <2>3 DEF CodesApart, Sends
<1>9. LocksHeld'
  BY <1>3 DEF CodesInv, LocksHeld, Sends
<1>10. Texted'
  BY <1>2, <1>3 DEF CodesInv, Texted, InState
<1>11. Latest'
  <2>1. ~InState(t, "send", "texted")
    BY DEF InFlight, InState, Idle
  <2> QED BY <1>2, <1>3, <2>1 DEF CodesInv, Latest, InState
<1> QED BY <1>8, <1>9, <1>10, <1>11 DEF CodesInv

\* The session of a request that goes on to pc.
LEMMA NextPc ==
    ASSUME TypeOK, NEW t \in Slot, Sends(t), NEW pc, Moves(t, [req[t] EXCEPT !.pc = pc])
    PROVE  /\ req'[t].kind = "send" /\ req'[t].pc = pc
           /\ req'[t].user = req[t].user /\ req'[t].phone = req[t].phone
           /\ req'[t].row = req[t].row /\ req'[t].code = req[t].code
           /\ \A v \in Slot \ {t} : req'[v] = req[v]
BY Kinds, TypeParts DEF Moves, Sends, Sending

LEMMA CodesFlush ==
    ASSUME TypeOK, CodesInv, NEW t \in Slot, Flush(t)
    PROVE  CodesInv'
<1>1. Sends(t) /\ req[t].pc = "generated" /\ UNCHANGED <<sms, issued, texts, last>>
  BY DEF Flush, InState, Sends, codeVars
<1>2. /\ req'[t].kind = "send" /\ req'[t].pc = "flushed"
      /\ req'[t].user = req[t].user /\ req'[t].phone = req[t].phone
      /\ req'[t].row = req[t].row /\ req'[t].code = req[t].code
      /\ \A v \in Slot \ {t} : req'[v] = req[v]
  BY <1>1, FlushType, NextPc
<1>3. CodesApart'
  BY <1>1, <1>2 DEF CodesInv, CodesApart, Sends
<1>4. LocksHeld'
  <2>1. \A v \in Slot \ {t} : Sends(v) /\ req[v].pc # "generated" => req[v].row # req[t].row
    BY DEF Flush, Locked, Sends
  <2> QED BY <1>2, <2>1 DEF CodesInv, LocksHeld, Sends
<1>5. Texted' /\ Latest'
  BY <1>1, <1>2 DEF CodesInv, Texted, Latest, InState
<1> QED BY <1>3, <1>4, <1>5 DEF CodesInv

LEMMA CodesText ==
    ASSUME TypeOK, CodesInv, NEW t \in Slot, SendText(t)
    PROVE  CodesInv'
<1>1. Sends(t) /\ req[t].pc = "flushed" /\ UNCHANGED <<sms, issued>>
  BY DEF SendText, InState, Sends
<1>2. /\ req'[t].kind = "send" /\ req'[t].pc = "texted"
      /\ req'[t].user = req[t].user /\ req'[t].phone = req[t].phone
      /\ req'[t].row = req[t].row /\ req'[t].code = req[t].code
      /\ \A v \in Slot \ {t} : req'[v] = req[v]
  BY <1>1, SendTextType, NextPc
<1>3. /\ DOMAIN texts' = DOMAIN texts \cup {req[t].code}
      /\ texts'[req[t].code].phone = req[t].phone
      /\ texts'[req[t].code].to = req[t].user
      /\ \A c \in DOMAIN texts \ {req[t].code} : texts'[c] = texts[c]
  BY DEF SendText
<1>4. /\ req[t].phone \in Phone
      /\ last'[req[t].phone] = req[t].code
      /\ \A p \in Phone \ {req[t].phone} : last'[p] = last[p]
  <2>1. req[t].phone \in Phone
    BY <1>1, Kinds, TypeParts DEF Sends, Sending
  <2> QED BY <2>1 DEF SendText, TypeOK
<1>5. CodesApart' /\ LocksHeld'
  BY <1>1, <1>2 DEF CodesInv, CodesApart, LocksHeld, Sends
<1>6. Texted'
  <2>1. ASSUME NEW v \in Slot, req'[v].kind = "send", req'[v].pc = "texted"
        PROVE  /\ req'[v].code \in DOMAIN texts'
               /\ texts'[req'[v].code].phone = req'[v].phone
               /\ texts'[req'[v].code].to = req'[v].user
    <3>1. CASE v = t
      BY <1>2, <1>3, <3>1
    <3>2. CASE v # t
      <4>1. req'[v] = req[v] /\ InState(v, "send", "texted") /\ Sends(v)
        BY <1>2, <2>1, <3>2 DEF Sends, InState
      <4>2. req[v].code # req[t].code
        BY <1>1, <3>2, <4>1 DEF CodesInv, CodesApart
      <4> QED BY <1>3, <4>1, <4>2 DEF CodesInv, Texted
    <3> QED BY <3>1, <3>2
  <2>2. \A r \in DOMAIN sms : r # req[t].code /\ sms[r].code # req[t].code
    BY <1>1 DEF CodesInv, CodesApart
  <2>3. ASSUME NEW r \in DOMAIN sms'
        PROVE  /\ r \in DOMAIN texts' /\ texts'[r].phone = sms'[r].phone
               /\ texts'[r].to = sms'[r].by /\ sms'[r].code \in DOMAIN texts'
    BY <1>1, <1>3, <2>2 DEF CodesInv, Texted
  <2> QED BY <2>1, <2>3 DEF Texted, InState
<1>7. Latest'
  <2>1. ASSUME NEW p \in Phone, last'[p] # 0
        PROVE  \/ \E v \in Slot : /\ req'[v].kind = "send" /\ req'[v].pc = "texted"
                                  /\ req'[v].phone = p /\ req'[v].code = last'[p]
               \/ \E r \in DOMAIN sms' : sms'[r].phone = p /\ sms'[r].code = last'[p]
    <3>1. CASE p = req[t].phone
      BY <1>2, <1>4, <3>1
    <3>2. CASE p # req[t].phone
      <4>1. last'[p] = last[p]
        BY <1>4, <3>2
      <4>2. \/ \E v \in Slot : /\ InState(v, "send", "texted")
                               /\ req[v].phone = p /\ req[v].code = last[p]
            \/ \E r \in DOMAIN sms : sms[r].phone = p /\ sms[r].code = last[p]
        BY <2>1, <4>1 DEF CodesInv, Latest
      <4> QED BY <1>1, <1>2, <3>2, <4>1, <4>2 DEF InState
    <3> QED BY <3>1, <3>2
  <2>2. ASSUME NEW v \in Slot, req'[v].kind = "send", req'[v].pc = "texted",
               req'[v].row \in DOMAIN sms'
        PROVE  last'[req'[v].phone] # sms'[req'[v].row].code
    <3>1. CASE req'[v].phone = req[t].phone
      BY <1>1, <1>2, <1>4, <2>2, <3>1 DEF CodesInv, CodesApart
    <3>2. CASE req'[v].phone # req[t].phone
      <4>1. v # t /\ req'[v] = req[v] /\ InState(v, "send", "texted")
        BY <1>2, <2>2, <3>2 DEF InState
      <4>2. req[v].phone \in Phone
        BY <4>1, Kinds, TypeParts DEF InState, Sending
      <4> QED BY <1>1, <1>4, <2>2, <3>2, <4>1, <4>2 DEF CodesInv, Latest
    <3> QED BY <3>1, <3>2
  <2> QED BY <2>1, <2>2 DEF Latest, InState
<1> QED BY <1>5, <1>6, <1>7 DEF CodesInv

\* The row t has locked gets its code; every other row stays.
LEMMA CodesCommit ==
    ASSUME TypeOK, CodesInv, NEW t \in Slot, CommitCode(t)
    PROVE  CodesInv'
<1>1. /\ InState(t, "send", "texted") /\ Sends(t)
      /\ UNCHANGED <<issued, texts, last>>
  BY DEF CommitCode, InState, Sends
<1>2. req'[t].kind # "send" /\ \A v \in Slot \ {t} : req'[v] = req[v]
  BY CommitCodeType DEF Moves, Idle
<1>3. PICK row, code, phone, user : /\ row = req[t].row /\ code = req[t].code
                                    /\ phone = req[t].phone /\ user = req[t].user
  OBVIOUS
<1>4. /\ DOMAIN sms' = DOMAIN sms \cup {row}
      /\ \A r \in DOMAIN sms \ {row} : sms'[r] = sms[r]
      /\ sms'[row].code = code /\ sms'[row].phone = phone
      /\ row \in DOMAIN sms => sms'[row].by = sms[row].by
      /\ row \notin DOMAIN sms => sms'[row].by = user
  BY <1>3 DEF CommitCode, Stored
<1>5. /\ row <= code /\ code <= issued /\ code \notin DOMAIN sms
      /\ \A r \in DOMAIN sms : sms[r].code # code
      /\ row \in DOMAIN sms => sms[row].phone = phone
      /\ row \notin DOMAIN sms => row = code
  BY <1>1, <1>3 DEF CodesInv, CodesApart
<1>6. \A v \in Slot : req'[v].kind = "send" =>
          v # t /\ req'[v] = req[v] /\ Sends(v) /\ req[v].code # code
  BY <1>1, <1>2, <1>3 DEF Sends, CodesInv, CodesApart
<1>7. CodesApart'
  <2>1. \A r \in DOMAIN sms' : r <= sms'[r].code /\ sms'[r].code <= issued'
    BY <1>1, <1>4, <1>5 DEF CodesInv, CodesApart
  <2>2. ASSUME NEW v \in Slot, req'[v].kind = "send"
        PROVE  /\ req'[v].row <= req'[v].code /\ req'[v].code <= issued'
               /\ req'[v].code \notin DOMAIN sms'
               /\ \A r \in DOMAIN sms' : sms'[r].code # req'[v].code
               /\ req'[v].row \in DOMAIN sms' => sms'[req'[v].row].phone = req'[v].phone
               /\ req'[v].row \notin DOMAIN sms' => req'[v].row = req'[v].code
    <3>1. v # t /\ req'[v] = req[v] /\ Sends(v) /\ req[v].code # code
      BY <1>6, <2>2
    <3>2. /\ req[v].row <= req[v].code /\ req[v].code <= issued
          /\ req[v].code \notin DOMAIN sms
          /\ \A r \in DOMAIN sms : sms[r].code # req[v].code
          /\ req[v].row \in DOMAIN sms => sms[req[v].row].phone = req[v].phone
          /\ req[v].row \notin DOMAIN sms => req[v].row = req[v].code
      BY <3>1 DEF CodesInv, CodesApart
    <3>3. req[v].code \notin DOMAIN sms'
      BY <1>4, <1>5, <3>1, <3>2
    <3>4. \A r \in DOMAIN sms' : sms'[r].code # req[v].code
      BY <1>4, <3>1, <3>2
    <3>5. req[v].row \in DOMAIN sms' => sms'[req[v].row].phone = req[v].phone
      <4>1. CASE req[v].row = row
        BY <1>4, <1>5, <3>1, <3>2, <4>1
      <4>2. CASE req[v].row # row
        BY <1>4, <3>2, <4>2
      <4> QED BY <4>1, <4>2
    <3>6. req[v].row \notin DOMAIN sms' => req[v].row = req[v].code
      BY <1>4, <3>2
    <3> QED BY <1>1, <3>1, <3>2, <3>3, <3>4, <3>5, <3>6
  <2>3. ASSUME NEW v \in Slot, NEW w \in Slot, req'[v].kind = "send", req'[w].kind = "send",
               req'[v].code = req'[w].code
        PROVE  v = w
    BY <1>6, <2>3 DEF CodesInv, CodesApart
  <2> QED BY <2>1, <2>2, <2>3 DEF CodesApart, Sends
<1>8. LocksHeld'
  BY <1>6 DEF CodesInv, LocksHeld, Sends
<1>9. Texted'
  <2>1. /\ code \in DOMAIN texts /\ texts[code].phone = phone /\ texts[code].to = user
    BY <1>1, <1>3 DEF CodesInv, Texted
  <2>2. ASSUME NEW r \in DOMAIN sms'
        PROVE  /\ r \in DOMAIN texts /\ texts[r].phone = sms'[r].phone
               /\ texts[r].to = sms'[r].by /\ sms'[r].code \in DOMAIN texts
    <3>1. CASE r # row
      BY <1>4, <3>1 DEF CodesInv, Texted
    <3>2. CASE r = row /\ row \in DOMAIN sms
      BY <1>4, <1>5, <2>1, <3>2 DEF CodesInv, Texted
    <3>3. CASE r = row /\ row \notin DOMAIN sms
      BY <1>4, <1>5, <2>1, <3>3
    <3> QED BY <3>1, <3>2, <3>3
  <2>3. ASSUME NEW v \in Slot, req'[v].kind = "send", req'[v].pc = "texted"
        PROVE  /\ req'[v].code \in DOMAIN texts
               /\ texts[req'[v].code].phone = req'[v].phone
               /\ texts[req'[v].code].to = req'[v].user
    BY <1>6, <2>3 DEF CodesInv, Texted, InState
  <2> QED BY <1>1, <2>2, <2>3 DEF Texted, InState
<1>10. Latest'
  <2>1. phone \in Phone
    BY <1>1, <1>3, Kinds, TypeParts DEF Sends, Sending
  <2>2. row \in DOMAIN sms => last[phone] # sms[row].code
    BY <1>1, <1>3 DEF CodesInv, Latest
  <2>3. ASSUME NEW p \in Phone, last[p] # 0
        PROVE  \/ \E v \in Slot : /\ req'[v].kind = "send" /\ req'[v].pc = "texted"
                                  /\ req'[v].phone = p /\ req'[v].code = last[p]
               \/ \E r \in DOMAIN sms' : sms'[r].phone = p /\ sms'[r].code = last[p]
    <3>1. ASSUME NEW v \in Slot, InState(v, "send", "texted"),
                 req[v].phone = p, req[v].code = last[p]
          PROVE  \/ \E w \in Slot : /\ req'[w].kind = "send" /\ req'[w].pc = "texted"
                                    /\ req'[w].phone = p /\ req'[w].code = last[p]
                 \/ \E r \in DOMAIN sms' : sms'[r].phone = p /\ sms'[r].code = last[p]
      BY <1>2, <1>3, <1>4, <3>1 DEF InState
    <3>2. ASSUME NEW r \in DOMAIN sms, sms[r].phone = p, sms[r].code = last[p]
          PROVE  r \in DOMAIN sms' /\ sms'[r] = sms[r]
      BY <1>4, <1>5, <2>2, <3>2
    <3> QED BY <2>3, <3>1, <3>2 DEF CodesInv, Latest
  <2>4. ASSUME NEW v \in Slot, req'[v].kind = "send", req'[v].pc = "texted",
               req'[v].row \in DOMAIN sms'
        PROVE  last[req'[v].phone] # sms'[req'[v].row].code
    <3>1. /\ v # t /\ req'[v] = req[v] /\ Sends(v) /\ req[v].code # code
          /\ InState(v, "send", "texted")
      BY <1>6, <2>4 DEF InState
    <3>2. req[v].row # row
      BY <1>1, <1>3, <3>1 DEF CodesInv, LocksHeld, InState
    <3> QED BY <1>4, <2>4, <3>1, <3>2 DEF CodesInv, Latest
  <2> QED BY <1>1, <2>3, <2>4 DEF Latest, InState
<1> QED BY <1>7, <1>8, <1>9, <1>10 DEF CodesInv

LEMMA CodesFail ==
    ASSUME TypeOK, CodesInv, NEW t \in Slot, SendingFails(t)
    PROVE  CodesInv'
<1>1. Sends(t) /\ UNCHANGED <<sms, issued, texts>>
  BY DEF SendingFails, Sends
<1>2. req'[t].kind # "send" /\ \A v \in Slot \ {t} : req'[v] = req[v]
  BY SendingFailsType DEF Moves, Idle
<1>3. \A p \in Phone : last'[p] = IF last[p] = req[t].code THEN 0 ELSE last[p]
  BY DEF SendingFails
<1>4. \A v \in Slot : req'[v].kind = "send" => v # t /\ req'[v] = req[v] /\ Sends(v)
  BY <1>2 DEF Sends
<1>5. CodesApart' /\ LocksHeld'
  BY <1>1, <1>4 DEF CodesInv, CodesApart, LocksHeld, Sends
<1>6. Texted'
  BY <1>1, <1>4 DEF CodesInv, Texted, InState
<1>7. Latest'
  <2>1. ASSUME NEW p \in Phone, last'[p] # 0
        PROVE  \/ \E v \in Slot : /\ req'[v].kind = "send" /\ req'[v].pc = "texted"
                                  /\ req'[v].phone = p /\ req'[v].code = last'[p]
               \/ \E r \in DOMAIN sms' : sms'[r].phone = p /\ sms'[r].code = last'[p]
    <3>1. last'[p] = last[p] /\ last[p] # req[t].code /\ last[p] # 0
      BY <1>3, <2>1
    <3>2. \/ \E v \in Slot : /\ InState(v, "send", "texted")
                             /\ req[v].phone = p /\ req[v].code = last[p]
          \/ \E r \in DOMAIN sms : sms[r].phone = p /\ sms[r].code = last[p]
      BY <3>1 DEF CodesInv, Latest
    <3> QED BY <1>1, <1>2, <3>1, <3>2 DEF InState
  <2>2. ASSUME NEW v \in Slot, req'[v].kind = "send", req'[v].pc = "texted",
               req'[v].row \in DOMAIN sms'
        PROVE  last'[req'[v].phone] # sms'[req'[v].row].code
    <3>1. req'[v] = req[v] /\ InState(v, "send", "texted") /\ req[v].row \in DOMAIN sms
      BY <1>1, <1>4, <2>2 DEF InState
    <3>2. req[v].phone \in Phone
      BY <3>1, Kinds, TypeParts DEF InState, Sending
    <3>3. sms[req[v].row].code # 0
      BY <3>1, CodesAreNumbers DEF TypeOK, Row
    <3> QED BY <1>1, <1>3, <3>1, <3>2, <3>3 DEF CodesInv, Latest
  <2> QED BY <2>1, <2>2 DEF Latest, InState
<1> QED BY <1>5, <1>6, <1>7 DEF CodesInv

\* A step about an account or an address, or of time: no request for a code
\* moves.
Elsewhere ==
    /\ UNCHANGED <<sms, issued, texts, excused, last>>
    /\ expired' >= expired
    /\ \A v \in Slot : req'[v] = req[v] \/ (~Sends(v) /\ req'[v].kind # "send")

CodeStep ==
    \/ \E t \in Slot, u \in User, p \in Phone : ~InFlight(t) /\ NewCode(t, u, p)
    \/ \E t \in Slot : Flush(t) \/ SendText(t) \/ CommitCode(t) \/ SendingFails(t)

LEMMA ElsewhereOf ==
    ASSUME TypeOK, UNCHANGED codeVars, NEW t \in Slot, NEW s, Moves(t, s),
           ~Sends(t), s.kind # "send"
    PROVE  Elsewhere
<1>1. expired' >= expired
  BY BoundsType DEF codeVars, TypeOK
<1> QED BY <1>1 DEF codeVars, Moves, Elsewhere

LEMMA CodeSteps ==
    ASSUME TypeOK, [Next]_vars
    PROVE  CodeStep \/ Elsewhere
<1>1. ASSUME NEW t \in Slot, ~InFlight(t) PROVE ~Sends(t)
  BY <1>1 DEF InFlight, Sends, Idle
<1>2. Idle.kind # "send"
  BY DEF Idle
<1>3. ASSUME UNCHANGED <<codeVars, req>> PROVE Elsewhere
  <2>1. expired' >= expired
    BY <1>3, BoundsType DEF codeVars, TypeOK
  <2> QED BY <1>3, <2>1 DEF codeVars, Elsewhere
<1>4. ASSUME NEW t \in Slot, NEW u \in User, Account(t, u) PROVE CodeStep \/ Elsewhere
  <2>1. PICK p \in Phone : p = OwnPhone[u]
    BY OwnPhoneType
  <2>2. CASE AskForAccount(t, u)
    BY <2>1, <2>2 DEF AskForAccount, CodeStep
  <2>3. CASE EnterForAccount(t, u)
    <3>1. Moves(t, [kind |-> "account", user |-> u])
      BY <2>3, EnterForAccountType
    <3>2. ~Sends(t) /\ UNCHANGED codeVars
      BY <1>1, <2>3 DEF EnterForAccount, Enter
    <3> QED BY <3>1, <3>2, ElsewhereOf
  <2> QED BY <1>4, <2>2, <2>3 DEF Account
<1>5. ASSUME NEW t \in Slot, NEW u \in Addressee, AddressBook(t, u)
      PROVE  CodeStep \/ Elsewhere
  <2>1. u \in User
    BY AddresseeType
  <2>2. CASE AskForAddress(t, u)
    <3>1. PICK p \in Phone : p = address[u].phone
      BY DEF TypeOK, Address
    <3> QED BY <2>1, <2>2, <3>1 DEF AskForAddress, CodeStep
  <2>3. ASSUME NEW p \in Phone, Resend(t, u, p) PROVE CodeStep
    BY <2>1, <2>3 DEF Resend, CodeStep
  <2>4. ASSUME NEW p \in Phone, EnterForAddress(t, u, p) PROVE Elsewhere
    <3>1. PICK s : /\ s = [kind |-> "address", user |-> u, loaded |-> address[u].confirmed]
                   /\ Moves(t, s)
      BY <2>4, EnterForAddressType
    <3>2. s.kind # "send"
      BY <3>1
    <3>3. ~Sends(t) /\ UNCHANGED codeVars
      BY <1>1, <2>4 DEF EnterForAddress, Enter
    <3> QED BY <3>1, <3>2, <3>3, ElsewhereOf
  <2>5. ASSUME NEW p \in Phone, LoadAddress(t, u, p) PROVE Elsewhere
    <3>1. PICK s : /\ s = [kind |-> "edit", user |-> u, phone |-> p, old |-> address[u]]
                   /\ Moves(t, s)
      BY <2>5, LoadAddressType
    <3>2. s.kind # "send"
      BY <3>1
    <3>3. ~Sends(t) /\ UNCHANGED codeVars
      BY <1>1, <2>5 DEF LoadAddress
    <3> QED BY <3>1, <3>2, <3>3, ElsewhereOf
  <2> QED BY <1>5, <2>2, <2>3, <2>4, <2>5 DEF AddressBook
<1>6. ASSUME NEW t \in Slot, CommitAccount(t) \/ CommitAddress(t) \/ CommitEdit(t)
                             \/ RequestFails(t)
      PROVE  Elsewhere
  <2>1. Moves(t, Idle)
    BY <1>6, CommitAccountType, CommitAddressType, CommitEditType, RequestFailsType
  <2>2. ~Sends(t) /\ UNCHANGED codeVars
    BY <1>6 DEF CommitAccount, CommitAddress, CommitEdit, RequestFails, Sends
  <2> QED BY <1>2, <2>1, <2>2, ElsewhereOf
<1>7. ASSUME NEW t \in Slot, Progress(t) PROVE CodeStep \/ Elsewhere
  BY <1>6, <1>7 DEF Progress, CodeStep
<1>8. CASE Expire
  <2>1. expired' >= expired
    BY <1>8, BoundsType DEF Expire, TypeOK
  <2> QED BY <1>8, <2>1 DEF Expire, Elsewhere
<1>9. CASE UNCHANGED vars
  BY <1>3, <1>9 DEF vars
<1>10. ASSUME NEW t \in Slot, SendingFails(t) PROVE CodeStep
  BY <1>10 DEF CodeStep
<1> QED BY <1>4, <1>5, <1>6, <1>7, <1>8, <1>9, <1>10 DEF Next

LEMMA CodesNext == TypeOK /\ CodesInv /\ [Next]_vars => CodesInv'
<1> SUFFICES ASSUME TypeOK, CodesInv, [Next]_vars PROVE CodesInv'
  OBVIOUS
<1>1. CASE CodeStep
  BY <1>1, CodesAsk, CodesFlush, CodesText, CodesCommit, CodesFail DEF CodeStep
<1>2. CASE Elsewhere
  BY <1>2, CodesQuiet DEF Elsewhere
<1> QED BY <1>1, <1>2, CodeSteps

LEMMA CodesInit == Init => CodesInv
<1> SUFFICES ASSUME Init PROVE CodesInv
  OBVIOUS
<1>1. DOMAIN sms = {} /\ \A p \in Phone : last[p] = 0
  BY DEF Init
<1>2. \A t \in Slot : ~Sends(t)
  BY DEF Init, Idle, Sends
<1> QED BY <1>1, <1>2 DEF CodesInv, CodesApart, LocksHeld, Texted, Latest, InState, Sends

LEMMA CodesInvariance == Spec => [](TypeOK /\ CodesInv)
<1> QED BY CodesInit, CodesNext, TypeInvariance, PTL DEF Spec

-----------------------------------------------------------------------------
(* How many texts.                                                         *)

\* Until it has expired, a code that nothing excuses keeps further ones away:
\* it is at work, or a row has it or a later one.  Whatever else is at work for
\* the number began later.
Spaced ==
    /\ \A c \in DOMAIN texts : c <= issued
    /\ \A c \in DOMAIN texts \ excused : Fresh(c) =>
          \/ \E t \in Slot : Sends(t) /\ req[t].phone = texts[c].phone /\ req[t].code = c
          \/ \E r \in DOMAIN sms : sms[r].phone = texts[c].phone /\ c <= sms[r].code
    /\ \A c \in DOMAIN texts \ excused, t \in Slot :
          Sends(t) /\ req[t].phone = texts[c].phone =>
              /\ c <= req[t].code
              /\ Fresh(c) /\ req[t].code \notin excused => c = req[t].code
    /\ \A t, v \in Slot : /\ Sends(t) /\ req[t].code \notin excused
                          /\ Sends(v) /\ req[v].phone = req[t].phone
                          => req[t].code <= req[v].code
    /\ TextsAreFew

LEMMA Numbers ==
    ASSUME TypeOK
    PROVE  /\ expired \in Nat /\ issued \in Nat
           /\ \A c \in DOMAIN texts : c \in Nat
           /\ \A r \in DOMAIN sms : sms[r].code \in Nat
<1>1. issued \in Nat
  BY BoundsType DEF TypeOK
<1>2. expired \in Nat
  BY <1>1 DEF TypeOK
<1>3. \A c \in DOMAIN texts : c \in Nat
  BY CodesAreNumbers DEF TypeOK
<1>4. \A r \in DOMAIN sms : sms[r].code \in Nat
  BY CodesAreNumbers DEF TypeOK, Row
<1> QED BY <1>1, <1>2, <1>3, <1>4

\* What the codes at work are.
LEMMA CodeAtWork ==
    ASSUME TypeOK, CodesInv, NEW t \in Slot, Sends(t)
    PROVE  /\ req[t].code \in Nat /\ req[t].code <= issued
           /\ req[t].phone \in Phone
<1>1. req[t] \in Sending
  BY Kinds, TypeParts DEF Sends
<1> QED BY <1>1, CodesAreNumbers DEF Sending, CodesInv, CodesApart

\* Fewer requests at work, fewer fresh codes, more that are excused.
LEMMA SpacedFewer ==
    ASSUME TypeOK, Spaced, UNCHANGED <<sms, issued, texts>>,
           expired' >= expired, expired' \in Nat, excused \subseteq excused',
           \A v \in Slot : req'[v].kind = "send" =>
               /\ Sends(v) /\ req'[v].phone = req[v].phone /\ req'[v].code = req[v].code,
           \A v \in Slot : Sends(v) =>
               \/ req[v].code \in excused'
               \/ /\ req'[v].kind = "send"
                  /\ req'[v].phone = req[v].phone /\ req'[v].code = req[v].code
    PROVE  Spaced'
<1>1. expired \in Nat /\ \A c \in DOMAIN texts : c \in Nat
  BY Numbers
<1>2. \A c \in DOMAIN texts : c > expired' => Fresh(c)
  BY <1>1 DEF Fresh
<1>3. \A c \in DOMAIN texts' \ excused' : c \in DOMAIN texts \ excused
  OBVIOUS
<1>4. \A c \in DOMAIN texts' : c <= issued'
  BY DEF Spaced
<1>5. ASSUME NEW c \in DOMAIN texts' \ excused', c > expired'
      PROVE  \/ \E t \in Slot : /\ req'[t].kind = "send"
                                /\ req'[t].phone = texts'[c].phone /\ req'[t].code = c
             \/ \E r \in DOMAIN sms' : sms'[r].phone = texts'[c].phone /\ c <= sms'[r].code
  BY <1>2, <1>3, <1>5 DEF Spaced
<1>6. ASSUME NEW c \in DOMAIN texts' \ excused', NEW t \in Slot,
             req'[t].kind = "send", req'[t].phone = texts'[c].phone
      PROVE  /\ c <= req'[t].code
             /\ c > expired' /\ req'[t].code \notin excused' => c = req'[t].code
  BY <1>2, <1>3, <1>6 DEF Spaced
<1>7. ASSUME NEW t \in Slot, NEW v \in Slot, req'[t].kind = "send",
             req'[t].code \notin excused', req'[v].kind = "send",
             req'[v].phone = req'[t].phone
      PROVE  req'[t].code <= req'[v].code
  BY <1>7 DEF Spaced
<1>8. TextsAreFew'
  BY <1>2, <1>3 DEF Spaced, TextsAreFew, Fresh
<1> QED BY <1>4, <1>5, <1>6, <1>7, <1>8 DEF Spaced, Sends, Fresh

\* A code is only generated when every row of the number has expired.
LEMMA AllStale ==
    ASSUME TypeOK, NEW t \in Slot, NEW u \in User, NEW p \in Phone, NewCode(t, u, p),
           NEW q \in Rows(p)
    PROVE  ~Fresh(sms[q].code)
<1>1. PICK r \in Rows(p) : IsNewest(p, r) /\ ~Fresh(sms[r].code)
  BY DEF NewCode
<1>2. sms[q].code <= sms[r].code
  BY <1>1 DEF IsNewest
<1>3. sms[q].code \in Nat /\ sms[r].code \in Nat /\ expired \in Nat
  BY Numbers DEF Rows
<1> QED BY <1>1, <1>2, <1>3 DEF Fresh

LEMMA SpacedAsk ==
    ASSUME TypeOK, CodesInv, Spaced, NEW t \in Slot, NEW u \in User, NEW p \in Phone,
           ~InFlight(t), NewCode(t, u, p)
    PROVE  Spaced'
<1>1. PICK r \in Code : /\ (r = issued + 1 /\ Rows(p) = {}) \/ r \in Rows(p)
                        /\ Generated(t, u, p, r)
                        /\ Moves(t, Session(u, p, r, issued + 1))
  BY NewCodeMoves
<1>2. /\ UNCHANGED <<sms, texts, expired>> /\ issued' = issued + 1 /\ issued \in Nat
      /\ excused' = Excusing(t, p)
  BY <1>1, BoundsType DEF Generated, TypeOK
<1>3. /\ req'[t].kind = "send" /\ req'[t].phone = p /\ req'[t].code = issued + 1
      /\ \A v \in Slot \ {t} : req'[v] = req[v]
  BY <1>1 DEF Moves, Session
<1>4. ~Sends(t)
  BY DEF InFlight, Sends, Idle
<1>5. \A c \in DOMAIN texts : c \in Nat /\ c <= issued
  BY CodesAreNumbers DEF TypeOK, Spaced
<1>6. ASSUME NEW v \in Slot, Sends(v), req[v].phone = p
      PROVE  issued + 1 \in excused'
  BY <1>2, <1>4, <1>6 DEF Excusing, Sends
<1>7. /\ excused \subseteq excused'
      /\ \A c : c \in excused' \ excused => c = issued + 1
  BY <1>2 DEF Excusing
<1>8. DOMAIN texts' \ excused' = DOMAIN texts \ excused
  BY <1>2, <1>5, <1>7
<1>9. ASSUME NEW v \in Slot, req'[v].kind = "send", v # t
      PROVE  /\ Sends(v) /\ req'[v] = req[v] /\ req[v].code \in Nat
             /\ req[v].code <= issued
             /\ req[v].code \in excused' => req[v].code \in excused
  <2>1. Sends(v) /\ req'[v] = req[v]
    BY <1>3, <1>9 DEF Sends
  <2>2. req[v].code \in Nat /\ req[v].code <= issued
    BY <2>1, CodeAtWork
  <2> QED BY <1>2, <1>7, <2>1, <2>2
<1>10. ASSUME NEW c \in DOMAIN texts \ excused, Fresh(c), texts[c].phone = p
       PROVE  issued + 1 \in excused'
  <2>1. CASE \E v \in Slot : Sends(v) /\ req[v].phone = texts[c].phone /\ req[v].code = c
    BY <1>6, <1>10, <2>1
  <2>2. ASSUME NEW q \in DOMAIN sms, sms[q].phone = texts[c].phone, c <= sms[q].code
        PROVE  FALSE
    <3>1. q \in Rows(p)
      BY <1>10, <2>2 DEF Rows
    <3>2. ~Fresh(sms[q].code)
      BY <3>1, AllStale
    <3>3. sms[q].code \in Nat /\ expired \in Nat /\ c \in Nat
      BY <1>5, <2>2, Numbers
    <3> QED BY <1>10, <2>2, <3>2, <3>3 DEF Fresh
  <2> QED BY <1>10, <2>1, <2>2 DEF Spaced
<1>11. \A c \in DOMAIN texts' : c <= issued'
  BY <1>2, <1>5
<1>12. ASSUME NEW c \in DOMAIN texts' \ excused', c > expired'
       PROVE  \/ \E v \in Slot : /\ req'[v].kind = "send"
                                 /\ req'[v].phone = texts'[c].phone /\ req'[v].code = c
              \/ \E q \in DOMAIN sms' : sms'[q].phone = texts'[c].phone /\ c <= sms'[q].code
  <2>1. \/ \E v \in Slot : Sends(v) /\ req[v].phone = texts[c].phone /\ req[v].code = c
        \/ \E q \in DOMAIN sms : sms[q].phone = texts[c].phone /\ c <= sms[q].code
    BY <1>2, <1>8, <1>12 DEF Spaced, Fresh
  <2> QED BY <1>2, <1>3, <1>4, <2>1 DEF Sends
<1>13. ASSUME NEW c \in DOMAIN texts' \ excused', NEW v \in Slot,
              req'[v].kind = "send", req'[v].phone = texts'[c].phone
       PROVE  /\ c <= req'[v].code
              /\ c > expired' /\ req'[v].code \notin excused' => c = req'[v].code
  <2>1. CASE v = t
    BY <1>2, <1>3, <1>5, <1>8, <1>10, <1>13, <2>1 DEF Fresh
  <2>2. CASE v # t
    <3>1. Sends(v) /\ req'[v] = req[v]
      BY <1>9, <1>13, <2>2
    <3> QED BY <1>2, <1>7, <1>8, <1>13, <3>1 DEF Spaced, Fresh
  <2> QED BY <2>1, <2>2
<1>14. ASSUME NEW v \in Slot, NEW w \in Slot, req'[v].kind = "send",
              req'[v].code \notin excused', req'[w].kind = "send",
              req'[w].phone = req'[v].phone
       PROVE  req'[v].code <= req'[w].code
  <2>1. CASE w = t
    <3>1. CASE v = t
      BY <1>2, <1>3, <2>1, <3>1
    <3>2. CASE v # t
      BY <1>2, <1>3, <1>9, <1>14, <2>1, <3>2
    <3> QED BY <3>1, <3>2
  <2>2. CASE w # t /\ v = t
    BY <1>3, <1>6, <1>9, <1>14, <2>2
  <2>3. CASE w # t /\ v # t
    BY <1>7, <1>9, <1>14, <2>3 DEF Spaced
  <2> QED BY <2>1, <2>2, <2>3
<1>15. TextsAreFew'
  BY <1>2, <1>8 DEF Spaced, TextsAreFew, Fresh
<1> QED BY <1>11, <1>12, <1>13, <1>14, <1>15 DEF Spaced, Sends, Fresh

LEMMA SpacedText ==
    ASSUME TypeOK, CodesInv, Spaced, NEW t \in Slot, SendText(t)
    PROVE  Spaced'
<1>1. Sends(t) /\ UNCHANGED <<sms, issued, expired, excused>>
  BY DEF SendText, InState, Sends
<1>2. /\ req'[t].kind = "send"
      /\ req'[t].phone = req[t].phone /\ req'[t].code = req[t].code
      /\ \A v \in Slot \ {t} : req'[v] = req[v]
  BY <1>1, SendTextType, NextPc
<1>3. /\ DOMAIN texts' = DOMAIN texts \cup {req[t].code}
      /\ texts'[req[t].code].phone = req[t].phone
      /\ \A c \in DOMAIN texts \ {req[t].code} : texts'[c] = texts[c]
  BY DEF SendText
<1>4. req[t].code \in Nat /\ req[t].code <= issued
  BY <1>1, CodeAtWork
<1>5. \A v \in Slot : /\ req'[v].kind = "send" <=> Sends(v)
                      /\ Sends(v) => /\ req'[v].phone = req[v].phone
                                     /\ req'[v].code = req[v].code
                                     /\ req[v].code \in Nat
  BY <1>1, <1>2, CodeAtWork DEF Sends
<1>6. \A c \in DOMAIN texts' : c <= issued'
  BY <1>1, <1>3, <1>4 DEF Spaced
<1>7. ASSUME NEW c \in DOMAIN texts' \ excused', c > expired'
      PROVE  \/ \E v \in Slot : /\ req'[v].kind = "send"
                                /\ req'[v].phone = texts'[c].phone /\ req'[v].code = c
             \/ \E q \in DOMAIN sms' : sms'[q].phone = texts'[c].phone /\ c <= sms'[q].code
  <2>1. CASE c = req[t].code
    BY <1>2, <1>3, <2>1
  <2>2. CASE c # req[t].code
    <3>1. c \in DOMAIN texts \ excused /\ texts'[c] = texts[c] /\ Fresh(c)
      BY <1>1, <1>3, <1>7, <2>2 DEF Fresh
    <3> QED BY <1>1, <1>5, <3>1 DEF Spaced
  <2> QED BY <2>1, <2>2
<1>8. ASSUME NEW c \in DOMAIN texts' \ excused', NEW v \in Slot,
             req'[v].kind = "send", req'[v].phone = texts'[c].phone
      PROVE  /\ c <= req'[v].code
             /\ c > expired' /\ req'[v].code \notin excused' => c = req'[v].code
  <2>1. CASE c = req[t].code
    BY <1>1, <1>3, <1>5, <1>8, <2>1 DEF Spaced
  <2>2. CASE c # req[t].code
    <3>1. c \in DOMAIN texts \ excused /\ texts'[c] = texts[c]
      BY <1>1, <1>3, <2>2
    <3> QED BY <1>1, <1>5, <1>8, <3>1 DEF Spaced, Fresh
  <2> QED BY <2>1, <2>2
<1>9. ASSUME NEW v \in Slot, NEW w \in Slot, req'[v].kind = "send",
             req'[v].code \notin excused', req'[w].kind = "send",
             req'[w].phone = req'[v].phone
      PROVE  req'[v].code <= req'[w].code
  BY <1>1, <1>5, <1>9 DEF Spaced
<1>10. ASSUME NEW c \in DOMAIN texts' \ excused', NEW d \in DOMAIN texts' \ excused',
              texts'[c].phone = texts'[d].phone, c > expired', d > expired'
       PROVE  c = d
  <2>1. ASSUME NEW e \in DOMAIN texts' \ excused', e # req[t].code, e > expired'
        PROVE  /\ e \in DOMAIN texts \ excused /\ texts'[e] = texts[e] /\ Fresh(e)
               /\ req[t].code \notin excused => texts[e].phone # req[t].phone
    <3>1. e \in DOMAIN texts \ excused /\ texts'[e] = texts[e] /\ Fresh(e)
      BY <1>1, <1>3, <2>1 DEF Fresh
    <3> QED BY <1>1, <2>1, <3>1 DEF Spaced
  <2>2. CASE c = req[t].code \/ d = req[t].code
    BY <1>1, <1>3, <1>10, <2>1, <2>2
  <2>3. CASE c # req[t].code /\ d # req[t].code
    BY <1>10, <2>1, <2>3 DEF Spaced, TextsAreFew
  <2> QED BY <2>2, <2>3
<1> QED BY <1>6, <1>7, <1>8, <1>9, <1>10 DEF Spaced, TextsAreFew, Sends, Fresh

\* Nothing at work replaces an unexcused code by an older one.
LEMMA SpacedCommit ==
    ASSUME TypeOK, CodesInv, Spaced, NEW t \in Slot, CommitCode(t)
    PROVE  Spaced'
<1>1. Sends(t) /\ UNCHANGED <<issued, expired, texts, excused>>
  BY DEF CommitCode, InState, Sends
<1>2. req'[t].kind # "send" /\ \A v \in Slot \ {t} : req'[v] = req[v]
  BY CommitCodeType DEF Moves, Idle
<1>3. PICK row, code, phone : row = req[t].row /\ code = req[t].code /\ phone = req[t].phone
  OBVIOUS
<1>4. /\ DOMAIN sms' = DOMAIN sms \cup {row}
      /\ \A r \in DOMAIN sms \ {row} : sms'[r] = sms[r]
      /\ sms'[row].code = code /\ sms'[row].phone = phone
  BY <1>3 DEF CommitCode, Stored
<1>5. row \in DOMAIN sms => sms[row].phone = phone
  BY <1>1, <1>3 DEF CodesInv, CodesApart
<1>6. code \in Nat
  BY <1>1, <1>3, CodeAtWork
<1>7. \A v \in Slot : req'[v].kind = "send" => Sends(v) /\ req'[v] = req[v]
  BY <1>2 DEF Sends
<1>8. ASSUME NEW c \in DOMAIN texts' \ excused', c > expired'
      PROVE  \/ \E v \in Slot : /\ req'[v].kind = "send"
                                /\ req'[v].phone = texts'[c].phone /\ req'[v].code = c
             \/ \E q \in DOMAIN sms' : sms'[q].phone = texts'[c].phone /\ c <= sms'[q].code
  <2>1. c \in DOMAIN texts \ excused /\ Fresh(c) /\ texts'[c] = texts[c]
    BY <1>1, <1>8 DEF Fresh
  <2>2. ASSUME NEW v \in Slot, Sends(v), req[v].phone = texts[c].phone, req[v].code = c
        PROVE  \/ req'[v].kind = "send" /\ req'[v] = req[v]
               \/ sms'[row].phone = texts[c].phone /\ c <= sms'[row].code
    BY <1>2, <1>3, <1>4, <1>6, <2>2 DEF Sends
  <2>3. ASSUME NEW q \in DOMAIN sms, sms[q].phone = texts[c].phone, c <= sms[q].code
        PROVE  q \in DOMAIN sms' /\ sms'[q].phone = texts[c].phone /\ c <= sms'[q].code
    <3>1. CASE q # row
      BY <1>4, <2>3, <3>1
    <3>2. CASE q = row
      <4>1. phone = texts[c].phone
        BY <1>5, <2>3, <3>2
      <4>2. c <= code
        BY <1>1, <1>3, <2>1, <4>1 DEF Spaced
      <4> QED BY <1>4, <3>2, <4>1, <4>2
    <3> QED BY <3>1, <3>2
  <2>4. row \in DOMAIN sms'
    BY <1>4
  <2> QED BY <2>1, <2>2, <2>3, <2>4 DEF Spaced
<1>9. \A c \in DOMAIN texts' : c <= issued'
  BY <1>1 DEF Spaced
<1>10. ASSUME NEW c \in DOMAIN texts' \ excused', NEW v \in Slot,
              req'[v].kind = "send", req'[v].phone = texts'[c].phone
       PROVE  /\ c <= req'[v].code
              /\ c > expired' /\ req'[v].code \notin excused' => c = req'[v].code
  BY <1>1, <1>7, <1>10 DEF Spaced, Fresh
<1>11. ASSUME NEW v \in Slot, NEW w \in Slot, req'[v].kind = "send",
              req'[v].code \notin excused', req'[w].kind = "send",
              req'[w].phone = req'[v].phone
       PROVE  req'[v].code <= req'[w].code
  BY <1>1, <1>7, <1>11 DEF Spaced
<1>12. TextsAreFew'
  BY <1>1 DEF Spaced, TextsAreFew, Fresh
<1> QED BY <1>8, <1>9, <1>10, <1>11, <1>12 DEF Spaced, Sends, Fresh

LEMMA SpacedNext == TypeOK /\ CodesInv /\ Spaced /\ [Next]_vars => Spaced'
<1> SUFFICES ASSUME TypeOK, CodesInv, Spaced, [Next]_vars PROVE Spaced'
  OBVIOUS
<1>1. expired \in Nat /\ expired' \in Nat
  BY NextType, BoundsType DEF TypeOK
<1>2. CASE Elsewhere
  <2>1. \A v \in Slot : /\ req'[v].kind = "send" => Sends(v) /\ req'[v] = req[v]
                        /\ Sends(v) => req'[v].kind = "send" /\ req'[v] = req[v]
    BY <1>2 DEF Elsewhere, Sends
  <2> QED BY <1>1, <1>2, <2>1, SpacedFewer DEF Elsewhere
<1>3. ASSUME NEW t \in Slot, Flush(t) PROVE Spaced'
  <2>1. Sends(t) /\ UNCHANGED <<sms, issued, expired, texts, excused>>
    BY <1>3 DEF Flush, InState, Sends, codeVars
  <2>2. \A v \in Slot : /\ req'[v].kind = "send" <=> Sends(v)
                        /\ Sends(v) => /\ req'[v].phone = req[v].phone
                                       /\ req'[v].code = req[v].code
    BY <1>3, <2>1, FlushType, NextPc DEF Sends
  <2> QED BY <1>1, <2>1, <2>2, SpacedFewer
<1>4. ASSUME NEW t \in Slot, SendingFails(t) PROVE Spaced'
  <2>1. /\ UNCHANGED <<sms, issued, expired, texts>>
        /\ excused' = excused \cup {req[t].code}
    BY <1>4 DEF SendingFails
  <2>2. req'[t].kind # "send" /\ \A v \in Slot \ {t} : req'[v] = req[v]
    BY <1>4, SendingFailsType DEF Moves, Idle
  <2>3. \A v \in Slot : req'[v].kind = "send" => Sends(v) /\ req'[v] = req[v]
    BY <2>2 DEF Sends
  <2>4. \A v \in Slot : Sends(v) =>
            req[v].code \in excused' \/ (req'[v].kind = "send" /\ req'[v] = req[v])
    BY <2>1, <2>2 DEF Sends
  <2> QED BY <1>1, <2>1, <2>3, <2>4, SpacedFewer
<1>5. CASE CodeStep
  BY <1>3, <1>4, <1>5, SpacedAsk, SpacedText, SpacedCommit DEF CodeStep
<1> QED BY <1>2, <1>5, CodeSteps

LEMMA SpacedInit == Init => Spaced
<1> SUFFICES ASSUME Init PROVE Spaced
  OBVIOUS
<1>1. DOMAIN texts = {} /\ \A t \in Slot : ~Sends(t)
  BY DEF Init, Idle, Sends
<1> QED BY <1>1 DEF Spaced, TextsAreFew

-----------------------------------------------------------------------------
(* The theorems.                                                           *)

\* Whatever overlaps and fails, every variable keeps its type.
THEOREM TypeCorrect == Spec => []TypeOK
BY TypeInvariance

\* An account counts as confirmed by a code for its own number, an address by a
\* code its owner received - for the number it has, unless the customer entered
\* one for another number or edited the address while it was verified.
THEOREM ConfirmedIsProved == Spec => []ConfirmedWasProved
<1>1. Owned => ConfirmedWasProved
  BY DEF Owned
<1> QED BY <1>1, OwnedInit, OwnedNext, TypeInvariance, PTL DEF Spec

\* Of a phone number with one row, the text that came last carries the code
\* that is accepted: two requests never hold the row at once, so texts and
\* commits come in the same order.
THEOREM LatestCounts == Spec => []LatestTextCounts
<1>1. ASSUME TypeOK, CodesInv PROVE LatestTextCounts
  <2> SUFFICES ASSUME NEW p \in Phone, last[p] # 0, Cardinality(Rows(p)) = 1,
                      \A t \in Slot : ~(req[t].kind = "send" /\ req[t].code = last[p]),
                      NEW r \in Rows(p)
               PROVE  sms[r].code = last[p]
    BY DEF LatestTextCounts
  <2>1. PICK q \in Rows(p) : sms[q].code = last[p]
    BY <1>1 DEF CodesInv, Latest, InState, Rows
  <2>2. IsFiniteSet(Rows(p))
    <3>1. IsFiniteSet(Code)
      BY BoundsType, FS_Interval DEF Code
    <3>2. Rows(p) \subseteq Code
      BY <1>1 DEF Rows, TypeOK
    <3> QED BY <3>1, <3>2, FS_Subset
  <2>3. \E x : Rows(p) = {x}
    BY <2>2, FS_Singleton
  <2> QED BY <2>1, <2>3
<1> QED BY <1>1, CodesInvariance, PTL

\* Every code in a row went out as a text first, and it is refused to whom it
\* was sent for one reason: somebody else had a code of that number before.
THEOREM OwnCodeAccepted == Spec => []OwnCodeIsAccepted
<1>1. ASSUME TypeOK, CodesInv PROVE OwnCodeIsAccepted
  <2> SUFFICES ASSUME NEW p \in Phone, NEW r \in Rows(p)
               PROVE  /\ sms[r].code \in DOMAIN texts
                      /\ sms[r].by # texts[sms[r].code].to =>
                            \E d \in DOMAIN texts : /\ d < sms[r].code
                                                    /\ texts[d].phone = p
                                                    /\ texts[d].to = sms[r].by
    BY DEF OwnCodeIsAccepted
  <2>1. r \in DOMAIN sms /\ sms[r].phone = p
    BY DEF Rows
  <2>2. /\ sms[r].code \in DOMAIN texts /\ r \in DOMAIN texts
        /\ texts[r].phone = p /\ texts[r].to = sms[r].by
    BY <1>1, <2>1 DEF CodesInv, Texted
  <2>3. r <= sms[r].code /\ r \in Nat /\ sms[r].code \in Nat
    BY <1>1, <2>1, CodesAreNumbers DEF CodesInv, CodesApart, TypeOK, Row
  <2> QED BY <2>2, <2>3
<1> QED BY <1>1, CodesInvariance, PTL

\* Within the lifetime of a code there is one text for its number that neither
\* an overlap nor a rollback excuses: as long as the code is not expired some
\* row is not, though it need not be the one the code was made for.
THEOREM FewTexts == Spec => []TextsAreFew
<1>1. Spaced => TextsAreFew
  BY DEF Spaced
<1> QED BY <1>1, SpacedInit, SpacedNext, CodesInvariance, PTL DEF Spec
=============================================================================
