------------------------- MODULE NativeAutoLockProofs -------------------------
(***************************************************************************)
(* What holds of NativeAutoLock for any number of overlapping calls, any   *)
(* settings bytes and any use of the lock: success means written, the mode *)
(* comes before the switch, other switches are kept, only verified locks   *)
(* are written to, and an undisturbed call succeeds.                       *)
(***************************************************************************)
EXTENDS NativeAutoLock, TLAPS

\* What call c has had accepted.
Has(c, what) == \E f \in accepted : f.call = c /\ f.what = what

\* A frame is one its call has made: with the mode or the switch asked for.
FramesAsAsked ==
    /\ accepted \subseteq frames
    /\ \A f \in frames :
        /\ f.what = "mode" => f.arg = TimeField[Target(f.call)]
        /\ f.what = "settings" => AutoLockOn(f.arg) = (f.call \in Enables)
    /\ \A c \in Calls : pc[c] \in Writes => AutoLockOn(new[c]) = (c \in Enables)

\* An acknowledgement on its way to a call is the lock's own word, and a frame
\* with the settings is made only after the one with the mode was accepted.
AckMeansAccepted ==
    \A c \in Calls :
        /\ pc[c] = "mode" /\ reply[c].what = "answered" => Has(c, "mode")
        /\ pc[c] = "settings" => Has(c, "mode")
        /\ pc[c] = "settings" /\ reply[c].what = "answered" => Has(c, "settings")
        /\ outcome[c] => Has(c, "mode") /\ Has(c, "settings")
        /\ \A f \in frames : f.call = c /\ f.what = "settings" => Has(c, "mode")

\* A call gets past the look at the capabilities on a verified lock only.
PastTheCheck ==
    /\ \A c \in Calls : pc[c] \in {"query"} \cup Writes => verified
    /\ \A f \in frames : f.what \in {"query"} \cup Writes => verified

\* No nonce anyone holds is newer than the lock's,
NoncesPast ==
    /\ \A c \in Calls : nonce[c] <= lockNonce /\ reply[c].nonce <= lockNonce
    /\ \A f \in frames : f.nonce <= lockNonce

\* so under the lock's own nonce what was read is what is there still.
ReadIsCurrent ==
    ~shared =>
        /\ \A f \in frames : f.what = "settings" /\ f.nonce = lockNonce
                             => LowBits(f.arg) = LowBits(settings)
        /\ \A c \in Calls : nonce[c] = lockNonce =>
            /\ pc[c] \in Writes => LowBits(new[c]) = LowBits(settings)
            /\ pc[c] = "query" /\ reply[c].what = "answered"
               => LowBits(reply[c].byte) = LowBits(settings)

SafetyInv ==
    /\ FramesAsAsked /\ AckMeansAccepted /\ PastTheCheck
    /\ NoncesPast /\ ReadIsCurrent

-----------------------------------------------------------------------------
(* Types.                                                                  *)

\* What is built from the constants has the types TypeOK asks for.
LEMMA ConstantTypes ==
    /\ NoNonce \in Nat /\ Nonces \subseteq Nat /\ 1 \in Nonces
    /\ \A n \in Nonces : n <= MaxUses => n + 1 \in Nonces
    /\ Nothing \in Reply
    /\ \A c \in Calls : TimeField[Target(c)] \in 0..255
BY NativeAutoLockAssumption DEF NoNonce, Nonces, Answer, Nothing, Reply, TimeField, Target

\* Whatever byte the lock answers with and whichever way the call goes,
\* set_auto_lock_in_settings keeps the low three bits, sets the Auto-Lock bit as
\* asked, and yields a byte that is no query; asking twice changes nothing more.
THEOREM SettingsByte ==
    ASSUME NEW byte \in 0..255, NEW on \in BOOLEAN
    PROVE  /\ SetAutoLock(byte, on) \in 0..15
           /\ LowBits(SetAutoLock(byte, on)) = LowBits(byte)
           /\ AutoLockOn(SetAutoLock(byte, on)) = on
           /\ SetAutoLock(SetAutoLock(byte, on), on) = SetAutoLock(byte, on)
<1> DEFINE low == byte % 8
<1>1. low \in 0..7
  OBVIOUS
<1> HIDE DEF low
<1>2. ASSUME NEW b \in 0..7
      PROVE  (b + 8) % 8 = b /\ (b + 0) % 8 = b
             /\ ((b + 8) \div 8) % 2 = 1 /\ ((b + 0) \div 8) % 2 = 0
  OBVIOUS
<1>3. CASE on
  <2>1. SetAutoLock(byte, on) = low + 8
    BY <1>3 DEF SetAutoLock, LowBits, low
  <2>2. low + 8 \in 0..15 /\ (low + 8) % 8 = low /\ ((low + 8) \div 8) % 2 = 1
    BY <1>1, <1>2
  <2>3. SetAutoLock(low + 8, on) = low + 8
    BY <1>3, <2>2 DEF SetAutoLock, LowBits
  <2> QED
    BY <1>3, <2>1, <2>2, <2>3 DEF LowBits, AutoLockOn, low
<1>4. CASE ~on
  <2>1. SetAutoLock(byte, on) = low + 0
    BY <1>4 DEF SetAutoLock, LowBits, low
  <2>2. low + 0 \in 0..15 /\ (low + 0) % 8 = low /\ ((low + 0) \div 8) % 2 = 0
    BY <1>1, <1>2
  <2>3. SetAutoLock(low + 0, on) = low + 0
    BY <1>4, <2>2 DEF SetAutoLock, LowBits
  <2> QED
    BY <1>4, <2>1, <2>2, <2>3 DEF LowBits, AutoLockOn, low
<1> QED
  BY <1>3, <1>4

\* So does the byte that a call writes.
LEMMA ByteOfCall ==
    ASSUME NEW byte \in 0..255, NEW c
    PROVE  /\ SetAutoLock(byte, c \in Enables) \in 0..15
           /\ LowBits(SetAutoLock(byte, c \in Enables)) = LowBits(byte)
           /\ AutoLockOn(SetAutoLock(byte, c \in Enables)) = (c \in Enables)
<1>1. CASE c \in Enables
  <2>1. (c \in Enables) = TRUE
    BY <1>1
  <2> QED
    BY <2>1, SettingsByte
<1>2. CASE c \notin Enables
  <2>1. (c \in Enables) = FALSE
    BY <1>2
  <2> QED
    BY <2>1, SettingsByte
<1> QED
  BY <1>1, <1>2

\* The types hold initially.
LEMMA InitTypeOK == Init => TypeOK
<1> SUFFICES ASSUME Init PROVE TypeOK
  OBVIOUS
<1>1. settings \in 0..255 /\ mode \in Modes /\ lockNonce \in Nonces
  BY NativeAutoLockAssumption, ConstantTypes DEF Init
<1>2. /\ pc \in [Calls -> Queries \cup Writes \cup {"new", "returned"}]
      /\ nonce \in [Calls -> {NoNonce} \cup Nonces]
      /\ new \in [Calls -> 0..255]
      /\ reply \in [Calls -> Reply]
      /\ outcome \in [Calls -> BOOLEAN]
  BY ConstantTypes DEF Init
<1> QED
  BY <1>1, <1>2 DEF Init, TypeOK

\* The actions of the calls keep the types,
LEMMA CallTypeOK == ASSUME TypeOK, NEW c \in Calls, CallStep(c) PROVE TypeOK'
<1>1. /\ reply[c] \in Reply /\ nonce[c] \in {NoNonce} \cup Nonces /\ new[c] \in 0..255
      /\ TimeField[Target(c)] \in 0..255 /\ 0 \in 0..255 /\ 128 \in 0..255
  BY ConstantTypes DEF TypeOK
<1>2. ASSUME NEW what \in Queries \cup Writes, NEW n \in {NoNonce} \cup Nonces,
             NEW arg \in 0..255, Send(c, what, n, arg)
      PROVE  /\ pc' \in [Calls -> Queries \cup Writes \cup {"new", "returned"}]
             /\ reply' \in [Calls -> Reply] /\ outcome' \in [Calls -> BOOLEAN]
             /\ frames' \subseteq Frames
  BY <1>2, ConstantTypes DEF Send, TypeOK, Frames
<1>3. ASSUME NEW ok \in BOOLEAN, Return(c, ok)
      PROVE  /\ pc' \in [Calls -> Queries \cup Writes \cup {"new", "returned"}]
             /\ reply' \in [Calls -> Reply] /\ outcome' \in [Calls -> BOOLEAN]
             /\ frames' \subseteq Frames
  BY <1>3, ConstantTypes DEF Return, TypeOK
<1>4. CASE Begin(c)
  <2>1. CASE Send(c, "status", NoNonce, 0) /\ UNCHANGED troubled
    BY <1>1, <1>2, <1>4, <2>1 DEF Begin, TypeOK, Queries, lockVars
  <2>2. CASE Return(c, FALSE) /\ troubled' = troubled \cup {c}
    BY <1>3, <1>4, <2>2 DEF Begin, TypeOK, lockVars
  <2> QED
    BY <1>4, <2>1, <2>2 DEF Begin
<1>5. CASE StatusReturns(c)
  <2>1. caps' \in BOOLEAN /\ reply[c].nonce \in {NoNonce} \cup Nonces
    BY <1>1, <1>5 DEF StatusReturns, TypeOK, Reply
  <2>2. CASE Send(c, "query", reply[c].nonce, 128)
    BY <1>1, <1>2, <1>5, <2>1, <2>2 DEF StatusReturns, TypeOK, Queries, lockVars, history
  <2>3. CASE Return(c, FALSE)
    BY <1>3, <1>5, <2>1, <2>3 DEF StatusReturns, TypeOK, lockVars, history
  <2> QED
    BY <1>5, <2>2, <2>3 DEF StatusReturns
<1>6. CASE QueryReturns(c)
  <2>1. reply[c].byte \in 0..255
    BY <1>1 DEF Reply
  <2>2. SetAutoLock(reply[c].byte, c \in Enables) \in 0..255
    BY <2>1, ByteOfCall
  <2>3. new' \in [Calls -> 0..255]
    BY <1>6, <2>2 DEF QueryReturns, TypeOK
  <2>4. /\ pc' \in [Calls -> Queries \cup Writes \cup {"new", "returned"}]
        /\ reply' \in [Calls -> Reply] /\ outcome' \in [Calls -> BOOLEAN]
        /\ frames' \subseteq Frames
    BY <1>1, <1>2, <1>6 DEF QueryReturns, Writes
  <2> QED
    BY <1>6, <2>3, <2>4 DEF QueryReturns, TypeOK, lockVars, history
<1>7. CASE ModeReturns(c)
  BY <1>1, <1>2, <1>7 DEF ModeReturns, TypeOK, Writes, lockVars, history
<1>8. CASE SettingsReturns(c)
  BY <1>1, <1>3, <1>8 DEF SettingsReturns, TypeOK, lockVars, history
<1>9. CASE Refused(c)
  BY <1>3, <1>9 DEF Refused, TypeOK, lockVars, history
<1>10. CASE ExchangeFails(c)
  <2>1. [reply[c] EXCEPT !.what = "failed"] \in Reply
    BY <1>1 DEF Reply
  <2>2. reply' \in [Calls -> Reply]
    BY <1>10, <2>1 DEF ExchangeFails, TypeOK
  <2> QED
    BY <1>10, <2>2 DEF ExchangeFails, TypeOK, lockVars
<1> QED
  BY <1>4, <1>5, <1>6, <1>7, <1>8, <1>9, <1>10 DEF CallStep

\* and so do the lock's,
LEMMA LockTypeOK == ASSUME TypeOK, NEW f \in frames, LockStep(f) PROVE TypeOK'
<1>1. f \in Frames /\ f.call \in Calls /\ f.arg \in 0..255
  BY DEF TypeOK, Frames
<1>2. ASSUME NEW r \in Reply, Deliver(f, r) PROVE reply' \in [Calls -> Reply]
  BY <1>1, <1>2 DEF Deliver, TypeOK
<1>3. /\ [what |-> "answered", nonce |-> lockNonce, byte |-> 0] \in Reply
      /\ Answer("answered", settings) \in Reply /\ Answer("answered", f.arg) \in Reply
      /\ Answer("answered", 0) \in Reply /\ Answer("rejected", 0) \in Reply
  <2>1. lockNonce \in Nonces /\ settings \in 0..255 /\ 0 \in 0..255
    BY DEF TypeOK
  <2> QED
    BY <1>1, <2>1 DEF Reply, Answer, Nothing
<1>4. CASE LockTellsStatus(f)
  BY <1>2, <1>3, <1>4 DEF LockTellsStatus, Unchanged, TypeOK
<1>5. CASE LockTellsSettings(f)
  BY <1>2, <1>3, <1>5 DEF LockTellsSettings, Unchanged, TypeOK
<1>6. CASE LockTakesMode(f)
  <2>1. mode' \in Modes /\ reply' \in [Calls -> Reply] /\ accepted' \subseteq Frames
    BY <1>1, <1>2, <1>3, <1>6 DEF LockTakesMode, TypeOK, Modes
  <2> QED
    BY <1>6, <2>1 DEF LockTakesMode, Unchanged, TypeOK
<1>7. CASE LockTakesSettings(f)
  <2>1. settings' \in 0..255 /\ reply' \in [Calls -> Reply] /\ accepted' \subseteq Frames
    BY <1>1, <1>2, <1>3, <1>7 DEF LockTakesSettings, TypeOK
  <2> QED
    BY <1>7, <2>1 DEF LockTakesSettings, Unchanged, TypeOK
<1>8. CASE LockRejects(f)
  BY <1>2, <1>3, <1>8 DEF LockRejects, Unchanged, TypeOK
<1> QED
  BY <1>4, <1>5, <1>6, <1>7, <1>8 DEF LockStep

\* and everyone else's.
LEMMA NextTypeOK == TypeOK /\ [Next]_vars => TypeOK'
<1> SUFFICES ASSUME TypeOK, [Next]_vars PROVE TypeOK'
  OBVIOUS
<1>1. CASE LockUsed
  <2>1. lockNonce' \in Nonces /\ settings' \in 0..255
    BY <1>1, ConstantTypes, NativeAutoLockAssumption DEF LockUsed, TypeOK
  <2> QED
    BY <1>1, <2>1 DEF LockUsed, TypeOK, callVars, Running
<1>2. CASE AppWrites
  BY <1>2, NativeAutoLockAssumption DEF AppWrites, TypeOK, callVars
<1>3. CASE OtherStatusRead
  BY <1>3 DEF OtherStatusRead, TypeOK, callVars, lockVars, history
<1>4. CASE UNCHANGED vars
  BY <1>4 DEF vars, TypeOK, callVars, lockVars, history
<1> QED
  BY <1>1, <1>2, <1>3, <1>4, CallTypeOK, LockTypeOK DEF Next

\* The types, for any number of calls: above all that the settings byte that a
\* call computes and the lock stores stays a byte.
THEOREM TypesHold == Spec => []TypeOK
BY InitTypeOK, NextTypeOK, PTL DEF Spec

-----------------------------------------------------------------------------
(* Safety.                                                                 *)

\* What a step of call c does to the state the invariants speak of.
LEMMA CallMoves ==
    ASSUME TypeOK, NEW c \in Calls, CallStep(c)
    PROVE  /\ UNCHANGED <<verified, lockVars, shared, accepted>>
           /\ \A d \in Calls \ {c} :
                /\ pc'[d] = pc[d] /\ nonce'[d] = nonce[d] /\ new'[d] = new[d]
                /\ reply'[d] = reply[d] /\ outcome'[d] = outcome[d]
<1> USE DEF TypeOK, lockVars, history, Send, Return
<1>1. CASE Begin(c)
  BY <1>1 DEF Begin
<1>2. CASE StatusReturns(c)
  BY <1>2 DEF StatusReturns
<1>3. CASE QueryReturns(c)
  BY <1>3 DEF QueryReturns
<1>4. CASE ModeReturns(c)
  BY <1>4 DEF ModeReturns
<1>5. CASE SettingsReturns(c)
  BY <1>5 DEF SettingsReturns
<1>6. CASE Refused(c)
  BY <1>6 DEF Refused
<1>7. CASE ExchangeFails(c)
  BY <1>7 DEF ExchangeFails
<1> QED
  BY <1>1, <1>2, <1>3, <1>4, <1>5, <1>6, <1>7 DEF CallStep

\* The same for the lock's steps: they answer at most the call of the frame.
LEMMA LockMoves ==
    ASSUME TypeOK, NEW f \in frames, LockStep(f)
    PROVE  /\ UNCHANGED <<verified, caps, known, pc, nonce, new, outcome, frames,
                          lockNonce, shared, troubled>>
           /\ f.call \in Calls
           /\ accepted' \in {accepted, accepted \cup {f}}
           /\ \A d \in Calls \ {f.call} : reply'[d] = reply[d]
           /\ reply'[f.call] = reply[f.call] \/ pc[f.call] = f.what
           /\ f.what \in Writes /\ reply'[f.call] # reply[f.call]
              /\ reply'[f.call].what = "answered" => accepted' = accepted \cup {f}
<1> USE DEF TypeOK, Unchanged, Deliver, Frames, Writes, Answer, Nothing
<1>1. CASE LockTellsStatus(f)
  BY <1>1 DEF LockTellsStatus
<1>2. CASE LockTellsSettings(f)
  BY <1>2 DEF LockTellsSettings
<1>3. CASE LockTakesMode(f)
  BY <1>3 DEF LockTakesMode
<1>4. CASE LockTakesSettings(f)
  BY <1>4 DEF LockTakesSettings
<1>5. CASE LockRejects(f)
  BY <1>5 DEF LockRejects
<1> QED
  BY <1>1, <1>2, <1>3, <1>4, <1>5 DEF LockStep

\* Neither the app, nor a use of the lock, nor a status read touches the calls.
LEMMA OthersMove ==
    ASSUME LockUsed \/ AppWrites \/ OtherStatusRead \/ UNCHANGED vars
    PROVE  UNCHANGED <<verified, callVars, frames, accepted>>
BY DEF LockUsed, AppWrites, OtherStatusRead, vars, callVars, lockVars, history

\* Frames carry what their call was asked for.
LEMMA NextFramesAsAsked == TypeOK /\ FramesAsAsked /\ [Next]_vars => FramesAsAsked'
<1> SUFFICES ASSUME TypeOK, FramesAsAsked, [Next]_vars PROVE FramesAsAsked'
  OBVIOUS
<1>1. ASSUME NEW c \in Calls, CallStep(c) PROVE FramesAsAsked'
  <2> USE CallMoves, <1>1 DEF FramesAsAsked, TypeOK, Send, Return, Queries, Writes
  <2>1. CASE Begin(c)
    BY <2>1 DEF Begin
  <2>2. CASE StatusReturns(c)
    BY <2>2 DEF StatusReturns
  <2>3. CASE QueryReturns(c)
    <3>1. reply[c].byte \in 0..255
      BY DEF Reply
    <3>2. AutoLockOn(new'[c]) = (c \in Enables)
      BY <2>3, <3>1, ByteOfCall DEF QueryReturns
    <3> QED
      BY <2>3, <3>2 DEF QueryReturns
  <2>4. CASE ModeReturns(c)
    BY <2>4 DEF ModeReturns, Answered
  <2>5. CASE SettingsReturns(c)
    BY <2>5 DEF SettingsReturns
  <2>6. CASE Refused(c)
    BY <2>6 DEF Refused
  <2>7. CASE ExchangeFails(c)
    BY <2>7 DEF ExchangeFails
  <2> QED
    BY <2>1, <2>2, <2>3, <2>4, <2>5, <2>6, <2>7 DEF CallStep
<1>2. ASSUME NEW f \in frames, LockStep(f) PROVE FramesAsAsked'
  BY <1>2, LockMoves DEF FramesAsAsked
<1>3. CASE LockUsed \/ AppWrites \/ OtherStatusRead \/ UNCHANGED vars
  BY <1>3, OthersMove DEF FramesAsAsked, callVars
<1> QED
  BY <1>1, <1>2, <1>3 DEF Next

\* Acknowledgements mean acceptance.
LEMMA NextAckMeansAccepted ==
    TypeOK /\ AckMeansAccepted /\ [Next]_vars => AckMeansAccepted'
<1> SUFFICES ASSUME TypeOK, AckMeansAccepted, [Next]_vars PROVE AckMeansAccepted'
  OBVIOUS
<1>1. ASSUME NEW c \in Calls, CallStep(c) PROVE AckMeansAccepted'
  <2> USE CallMoves, <1>1 DEF AckMeansAccepted, Has, TypeOK, Send, Return, Answer, Nothing
  <2>1. CASE Begin(c)
    BY <2>1 DEF Begin
  <2>2. CASE StatusReturns(c)
    BY <2>2 DEF StatusReturns
  <2>3. CASE QueryReturns(c)
    BY <2>3 DEF QueryReturns
  <2>4. CASE ModeReturns(c)
    BY <2>4 DEF ModeReturns, Answered
  <2>5. CASE SettingsReturns(c)
    BY <2>5 DEF SettingsReturns, Answered
  <2>6. CASE Refused(c)
    <3>1. pc'[c] = "returned" /\ outcome'[c] = FALSE /\ frames' = frames
      BY <2>6 DEF Refused
    <3> QED
      BY <3>1
  <2>7. CASE ExchangeFails(c)
    BY <2>7 DEF ExchangeFails
  <2> QED
    BY <2>1, <2>2, <2>3, <2>4, <2>5, <2>6, <2>7 DEF CallStep
<1>2. ASSUME NEW f \in frames, LockStep(f) PROVE AckMeansAccepted'
  <2>1. \A c \in Calls, what \in Writes : Has(c, what) => Has(c, what)'
    BY <1>2, LockMoves DEF Has
  <2>2. f.what \in Writes /\ reply'[f.call] # reply[f.call]
        /\ reply'[f.call].what = "answered" => Has(f.call, f.what)'
    BY <1>2, LockMoves DEF Has
  <2>3. f.call \in Calls /\ UNCHANGED <<pc, outcome, frames>>
    BY <1>2, LockMoves
  <2> SUFFICES ASSUME NEW c \in Calls
               PROVE  /\ pc[c] = "mode" /\ reply'[c].what = "answered" => Has(c, "mode")'
                      /\ pc[c] = "settings" => Has(c, "mode")'
                      /\ pc[c] = "settings" /\ reply'[c].what = "answered"
                         => Has(c, "settings")'
                      /\ outcome[c] => Has(c, "mode")' /\ Has(c, "settings")'
                      /\ \A g \in frames : g.call = c /\ g.what = "settings"
                                          => Has(c, "mode")'
    BY <2>3 DEF AckMeansAccepted
  <2>4. CASE reply'[c] = reply[c]
    BY <2>1, <2>4 DEF AckMeansAccepted, Writes
  <2>5. CASE reply'[c] # reply[c]
    <3>1. c = f.call /\ pc[c] = f.what
      BY <1>2, <2>5, LockMoves
    <3> QED
      BY <2>1, <2>2, <2>5, <3>1 DEF AckMeansAccepted, Writes
  <2> QED
    BY <2>4, <2>5
<1>3. CASE LockUsed \/ AppWrites \/ OtherStatusRead \/ UNCHANGED vars
  BY <1>3, OthersMove DEF AckMeansAccepted, Has, callVars
<1> QED
  BY <1>1, <1>2, <1>3 DEF Next

\* No call gets past the look at the capabilities on a lock of another type.
LEMMA NextPastTheCheck == TypeOK /\ PastTheCheck /\ [Next]_vars => PastTheCheck'
<1> SUFFICES ASSUME TypeOK, PastTheCheck, [Next]_vars PROVE PastTheCheck'
  OBVIOUS
<1>1. ASSUME NEW c \in Calls, CallStep(c) PROVE PastTheCheck'
  <2> USE CallMoves, <1>1 DEF PastTheCheck, TypeOK, Send, Return, Writes
  <2>1. CASE Begin(c)
    BY <2>1 DEF Begin
  <2>2. CASE StatusReturns(c)
    BY <2>2 DEF StatusReturns
  <2>3. CASE QueryReturns(c)
    BY <2>3 DEF QueryReturns, Answered
  <2>4. CASE ModeReturns(c)
    BY <2>4 DEF ModeReturns, Answered
  <2>5. CASE SettingsReturns(c)
    BY <2>5 DEF SettingsReturns
  <2>6. CASE Refused(c)
    BY <2>6 DEF Refused
  <2>7. CASE ExchangeFails(c)
    BY <2>7 DEF ExchangeFails
  <2> QED
    BY <2>1, <2>2, <2>3, <2>4, <2>5, <2>6, <2>7 DEF CallStep
<1>2. ASSUME NEW f \in frames, LockStep(f) PROVE PastTheCheck'
  BY <1>2, LockMoves DEF PastTheCheck
<1>3. CASE LockUsed \/ AppWrites \/ OtherStatusRead \/ UNCHANGED vars
  BY <1>3, OthersMove DEF PastTheCheck, callVars
<1> QED
  BY <1>1, <1>2, <1>3 DEF Next

\* Nobody holds a nonce newer than the lock's.
LEMMA NextNoncesPast == TypeOK /\ NoncesPast /\ [Next]_vars => NoncesPast'
<1> SUFFICES ASSUME TypeOK, NoncesPast, [Next]_vars PROVE NoncesPast'
  OBVIOUS
<1>0. lockNonce \in Nat /\ NoNonce = 0 /\ NoNonce <= lockNonce
  BY ConstantTypes DEF TypeOK, NoNonce
<1>1. ASSUME NEW c \in Calls, CallStep(c) PROVE NoncesPast'
  <2> USE CallMoves, <1>0, <1>1 DEF NoncesPast, TypeOK, Send, Return, Answer, Nothing, lockVars
  <2>1. CASE Begin(c)
    BY <2>1 DEF Begin
  <2>2. CASE StatusReturns(c)
    BY <2>2 DEF StatusReturns
  <2>3. CASE QueryReturns(c)
    BY <2>3 DEF QueryReturns
  <2>4. CASE ModeReturns(c)
    BY <2>4 DEF ModeReturns
  <2>5. CASE SettingsReturns(c)
    BY <2>5 DEF SettingsReturns
  <2>6. CASE Refused(c)
    <3>1. nonce' = nonce /\ frames' = frames /\ reply'[c] = Nothing
      BY <2>6 DEF Refused
    <3> QED
      BY <3>1
  <2>7. CASE ExchangeFails(c)
    <3>1. nonce' = nonce /\ frames' = frames /\ reply'[c].nonce = reply[c].nonce
      BY <2>7 DEF ExchangeFails, Reply
    <3> QED
      BY <3>1
  <2> QED
    BY <2>1, <2>2, <2>3, <2>4, <2>5, <2>6, <2>7 DEF CallStep
<1>2. ASSUME NEW f \in frames, LockStep(f) PROVE NoncesPast'
  <2>1. reply'[f.call] = reply[f.call] \/ reply'[f.call].nonce \in {NoNonce, lockNonce}
    <3> USE <1>2, LockMoves DEF Deliver, Answer, Nothing, TypeOK
    <3>1. CASE LockTellsStatus(f)
      BY <3>1 DEF LockTellsStatus
    <3>2. CASE LockTellsSettings(f)
      BY <3>2 DEF LockTellsSettings
    <3>3. CASE LockTakesMode(f)
      BY <3>3 DEF LockTakesMode
    <3>4. CASE LockTakesSettings(f)
      BY <3>4 DEF LockTakesSettings
    <3>5. CASE LockRejects(f)
      BY <3>5 DEF LockRejects
    <3> QED
      BY <1>2, <3>1, <3>2, <3>3, <3>4, <3>5 DEF LockStep
  <2> QED
    BY <1>0, <1>2, <2>1, LockMoves DEF NoncesPast
<1>3. CASE LockUsed
  <2>1. \A n \in Nat : n <= lockNonce => n <= lockNonce + 1
    BY <1>0
  <2>2. \A c \in Calls : nonce[c] \in Nat /\ reply[c].nonce \in Nat
    BY ConstantTypes DEF TypeOK, Reply
  <2>3. \A f \in frames : f.nonce \in Nat
    BY ConstantTypes DEF TypeOK, Frames
  <2> QED
    BY <1>3, <2>1, <2>2, <2>3 DEF LockUsed, NoncesPast, callVars
<1>4. CASE AppWrites \/ OtherStatusRead \/ UNCHANGED vars
  BY <1>4 DEF AppWrites, OtherStatusRead, NoncesPast, vars, callVars, lockVars
<1> QED
  BY <1>1, <1>2, <1>3, <1>4 DEF Next

\* The lock takes settings only under its own nonce.
LEMMA TakenIsCurrent ==
    ASSUME TypeOK, ReadIsCurrent, ~shared, NEW f \in frames, LockStep(f)
    PROVE  LowBits(settings') = LowBits(settings)
BY DEF LockStep, LockTellsStatus, LockTellsSettings, LockTakesMode, LockTakesSettings,
       LockRejects, Good, ReadIsCurrent

\* What was read under the lock's nonce is there still.
LEMMA NextReadIsCurrent ==
    TypeOK /\ NoncesPast /\ ReadIsCurrent /\ [Next]_vars => ReadIsCurrent'
<1> SUFFICES ASSUME TypeOK, NoncesPast, ReadIsCurrent, [Next]_vars, ~shared'
             PROVE  ReadIsCurrent'
  BY DEF ReadIsCurrent
<1>1. ASSUME NEW c \in Calls, CallStep(c) PROVE ReadIsCurrent'
  <2>0. ~shared /\ settings' = settings /\ lockNonce' = lockNonce
    BY <1>1, CallMoves DEF lockVars
  <2> USE CallMoves, <1>1, <2>0 DEF ReadIsCurrent, TypeOK, Send, Return, Answer, Nothing,
          Queries, Writes
  <2>1. CASE Begin(c)
    BY <2>1 DEF Begin
  <2>2. CASE StatusReturns(c)
    BY <2>2 DEF StatusReturns
  <2>3. CASE QueryReturns(c)
    <3>1. reply[c].byte \in 0..255
      BY DEF Reply
    <3>2. LowBits(new'[c]) = LowBits(reply[c].byte)
      BY <2>3, <3>1, ByteOfCall DEF QueryReturns
    <3> QED
      BY <2>3, <3>2 DEF QueryReturns, Answered
  <2>4. CASE ModeReturns(c)
    BY <2>4 DEF ModeReturns, Answered
  <2>5. CASE SettingsReturns(c)
    BY <2>5 DEF SettingsReturns
  <2>6. CASE Refused(c)
    <3>1. nonce' = nonce /\ frames' = frames /\ pc'[c] = "returned"
      BY <2>6 DEF Refused
    <3> QED
      BY <3>1
  <2>7. CASE ExchangeFails(c)
    <3>1. /\ nonce' = nonce /\ frames' = frames /\ pc' = pc /\ new' = new
          /\ reply'[c].what = "failed"
      BY <2>7 DEF ExchangeFails, Reply
    <3> QED
      BY <3>1
  <2> QED
    BY <2>1, <2>2, <2>3, <2>4, <2>5, <2>6, <2>7 DEF CallStep
<1>2. ASSUME NEW f \in frames, LockStep(f) PROVE ReadIsCurrent'
  <2>1. ~shared /\ LowBits(settings') = LowBits(settings)
    BY <1>2, LockMoves, TakenIsCurrent
  <2>2. ASSUME NEW c \in Calls, pc[c] = "query", reply'[c].what = "answered",
               reply'[c] # reply[c]
        PROVE  LowBits(reply'[c].byte) = LowBits(settings)
    <3>1. c = f.call /\ f.what = "query"
      BY <1>2, <2>2, LockMoves
    <3>2. LockTellsSettings(f) \/ LockRejects(f)
      BY <1>2, <3>1 DEF LockStep, LockTellsStatus, LockTakesMode, LockTakesSettings
    <3> QED
      BY <2>2, <3>1, <3>2 DEF LockTellsSettings, LockRejects, Deliver, Answer, Nothing, TypeOK
  <2> QED
    BY <1>2, <2>1, <2>2, LockMoves DEF ReadIsCurrent
<1>3. CASE LockUsed
  <2>1. lockNonce \in Nat /\ lockNonce' = lockNonce + 1
    BY <1>3, ConstantTypes DEF LockUsed, TypeOK
  <2>2. \A c \in Calls : nonce'[c] # lockNonce'
    <3>1. \A c \in Calls : nonce[c] \in Nat
      BY ConstantTypes DEF TypeOK
    <3> QED
      BY <1>3, <2>1, <3>1 DEF LockUsed, NoncesPast, callVars
  <2>3. \A f \in frames' : f.nonce # lockNonce'
    <3>1. \A f \in frames : f.nonce \in Nat
      BY ConstantTypes DEF TypeOK, Frames
    <3> QED
      BY <1>3, <2>1, <3>1 DEF LockUsed, NoncesPast
  <2> QED
    BY <2>2, <2>3 DEF ReadIsCurrent
<1>4. CASE AppWrites
  BY <1>4 DEF AppWrites
<1>5. CASE OtherStatusRead \/ UNCHANGED vars
  BY <1>5 DEF OtherStatusRead, ReadIsCurrent, vars, callVars, lockVars, history
<1> QED
  BY <1>1, <1>2, <1>3, <1>4, <1>5 DEF Next

\* The safety invariant holds initially and is preserved.
LEMMA SafetyInvariant == Spec => [](TypeOK /\ SafetyInv)
<1>1. Init => SafetyInv
  <2> SUFFICES ASSUME Init PROVE SafetyInv
    OBVIOUS
  <2>1. FramesAsAsked /\ PastTheCheck /\ AckMeansAccepted
    BY DEF Init, FramesAsAsked, PastTheCheck, AckMeansAccepted, Writes
  <2>2. NoncesPast
    BY DEF Init, NoncesPast, NoNonce, Answer, Nothing
  <2>3. ReadIsCurrent
    BY DEF Init, ReadIsCurrent, Writes
  <2> QED
    BY <2>1, <2>2, <2>3 DEF SafetyInv
<1>2. TypeOK /\ SafetyInv /\ [Next]_vars => SafetyInv'
  BY NextFramesAsAsked, NextAckMeansAccepted, NextPastTheCheck, NextNoncesPast,
     NextReadIsCurrent DEF SafetyInv
<1> QED
  BY <1>1, <1>2, InitTypeOK, NextTypeOK, PTL DEF Spec

\* A call that reports success has had its mode and its switch accepted by the
\* lock, for any number of calls (parse_set_auto_lock_ack and its sibling).
THEOREM SuccessesAreWritten == Spec => []SuccessMeansWritten
<1>1. TypeOK /\ SafetyInv => SuccessMeansWritten
  <2> SUFFICES ASSUME TypeOK, SafetyInv, NEW c \in Calls, outcome[c]
               PROVE  \E f, g \in accepted :
                         /\ f.call = c /\ f.what = "mode" /\ f.arg = TimeField[Target(c)]
                         /\ g.call = c /\ g.what = "settings"
                         /\ AutoLockOn(g.arg) = (c \in Enables)
    BY DEF SuccessMeansWritten
  <2>1. PICK f \in accepted : f.call = c /\ f.what = "mode"
    BY DEF SafetyInv, AckMeansAccepted, Has
  <2>2. PICK g \in accepted : g.call = c /\ g.what = "settings"
    BY DEF SafetyInv, AckMeansAccepted, Has
  <2> QED
    BY <2>1, <2>2 DEF SafetyInv, FramesAsAsked
<1> QED
  BY <1>1, SafetyInvariant, PTL

\* The switch is only thrown for a call whose mode the lock has accepted
\* (_async_set_native_auto_lock returns before its second write otherwise).
THEOREM ModeBeforeSwitch == Spec => []SwitchFollowsMode
<1>1. TypeOK /\ SafetyInv => SwitchFollowsMode
  BY DEF SafetyInv, AckMeansAccepted, FramesAsAsked, Has, SwitchFollowsMode, TypeOK, Frames
<1> QED
  BY <1>1, SafetyInvariant, PTL

\* A lock of a type the feature is not verified on is never written to, though
\* its type is only learned from the status the call reads first.
THEOREM OthersNeverWritten == Spec => []OnlyVerifiedWritten
<1>1. SafetyInv => OnlyVerifiedWritten
  BY DEF SafetyInv, PastTheCheck, OnlyVerifiedWritten
<1> QED
  BY <1>1, SafetyInvariant, PTL

\* The read-modify-write takes away no other switch, for any settings byte,
\* unless the app set it under the very nonce the call holds.
THEOREM SwitchesKept == Spec => OtherSettingsKept
<1>1. TypeOK /\ SafetyInv /\ [Next]_vars
      => [lockNonce' = lockNonce /\ ~shared /\ ~shared'
          => LowBits(settings') = LowBits(settings)]_vars
  <2> SUFFICES ASSUME TypeOK, SafetyInv, Next, lockNonce' = lockNonce, ~shared, ~shared'
               PROVE  LowBits(settings') = LowBits(settings)
    OBVIOUS
  <2>1. ASSUME NEW c \in Calls, CallStep(c) PROVE settings' = settings
    BY <2>1, CallMoves DEF lockVars
  <2>2. ASSUME NEW f \in frames, LockStep(f) PROVE LowBits(settings') = LowBits(settings)
    BY <2>2, TakenIsCurrent DEF SafetyInv
  <2>3. CASE LockUsed
    BY <2>3, ConstantTypes DEF LockUsed, TypeOK
  <2>4. CASE AppWrites \/ OtherStatusRead
    BY <2>4 DEF AppWrites, OtherStatusRead, lockVars
  <2> QED
    BY <2>1, <2>2, <2>3, <2>4 DEF Next
<1> QED
  BY <1>1, SafetyInvariant, PTL DEF Spec, OtherSettingsKept

-----------------------------------------------------------------------------
(* Progress without disturbance.                                           *)

\* The frames of a call carry its nonce and its byte,
FramesOfCall ==
    \A f \in frames :
        /\ f.what # "status" => /\ pc[f.call] \notin {"new", "status"}
                                /\ f.nonce = nonce[f.call]
        /\ f.what = "settings" => /\ pc[f.call] \in {"settings", "returned"}
                                  /\ f.arg = new[f.call]

\* and while nothing goes wrong for it, its nonce is the lock's.
OnCourse(c) ==
    /\ reply[c].what \notin {"rejected", "failed"}
    /\ pc[c] \in {"query"} \cup Writes => nonce[c] = lockNonce
    /\ pc[c] = "status" /\ reply[c].what = "answered" => reply[c].nonce = lockNonce
    /\ pc[c] = "settings" /\ reply[c].what = "answered" => reply[c].byte = new[c]
    /\ pc[c] = "returned" => outcome[c]

CoursesHeld == verified => \A c \in Calls \ troubled : OnCourse(c)

\* Every step keeps the frames those of their calls.
LEMMA NextFramesOfCall == TypeOK /\ FramesOfCall /\ [Next]_vars => FramesOfCall'
<1> SUFFICES ASSUME TypeOK, FramesOfCall, [Next]_vars PROVE FramesOfCall'
  OBVIOUS
<1>0. \A f \in frames : f.call \in Calls
  BY DEF TypeOK, Frames
<1>1. ASSUME NEW c \in Calls, CallStep(c) PROVE FramesOfCall'
  <2> USE CallMoves, <1>0, <1>1 DEF FramesOfCall, TypeOK, Send, Return, Queries, Writes
  <2>1. CASE Begin(c)
    BY <2>1 DEF Begin
  <2>2. CASE StatusReturns(c)
    BY <2>2 DEF StatusReturns, Answered
  <2>3. CASE QueryReturns(c)
    BY <2>3 DEF QueryReturns, Answered
  <2>4. CASE ModeReturns(c)
    BY <2>4 DEF ModeReturns, Answered
  <2>5. CASE SettingsReturns(c)
    BY <2>5 DEF SettingsReturns, Answered
  <2>6. CASE Refused(c)
    <3>1. /\ nonce' = nonce /\ new' = new /\ frames' = frames
          /\ pc[c] \notin {"new", "returned"} /\ pc'[c] = "returned"
      BY <2>6 DEF Refused
    <3>2. \A f \in frames : f.call = c => pc'[f.call] = "returned"
      BY <3>1
    <3> QED
      BY <3>1, <3>2
  <2>7. CASE ExchangeFails(c)
    BY <2>7 DEF ExchangeFails
  <2> QED
    BY <2>1, <2>2, <2>3, <2>4, <2>5, <2>6, <2>7 DEF CallStep
<1>2. ASSUME NEW f \in frames, LockStep(f) PROVE FramesOfCall'
  BY <1>2, LockMoves DEF FramesOfCall
<1>3. CASE LockUsed \/ AppWrites \/ OtherStatusRead \/ UNCHANGED vars
  BY <1>3, OthersMove DEF FramesOfCall, callVars
<1> QED
  BY <1>1, <1>2, <1>3 DEF Next

\* A lock that answers a call on course answers with its own nonce, accepts, and
\* echoes the call's byte.
LEMMA AnswerToCourse ==
    ASSUME TypeOK, FramesOfCall, NEW f \in frames, LockStep(f), OnCourse(f.call)
    PROVE  OnCourse(f.call)'
<1> DEFINE c == f.call
<1>1. c \in Calls /\ f.what \in Queries \cup Writes
  BY DEF TypeOK, Frames
<1>2. pc' = pc /\ nonce' = nonce /\ new' = new /\ outcome' = outcome /\ lockNonce' = lockNonce
  BY LockMoves
<1>3. ASSUME NEW r, Deliver(f, r), r.what = "answered",
             f.what = "status" => r.nonce = lockNonce,
             f.what = "settings" => r.byte = f.arg
      PROVE  OnCourse(c)'
  <2>1. CASE reply' = reply
    BY <1>2, <2>1 DEF OnCourse
  <2>2. CASE pc[c] = f.what /\ reply'[c] = r
    BY <1>1, <1>2, <1>3, <2>2 DEF OnCourse, FramesOfCall, Queries, Writes
  <2> QED
    BY <1>1, <1>3, <2>1, <2>2 DEF Deliver, TypeOK
<1>4. CASE LockTellsStatus(f)
  BY <1>3, <1>4 DEF LockTellsStatus
<1>5. CASE LockTellsSettings(f)
  BY <1>3, <1>5 DEF LockTellsSettings, Answer
<1>6. CASE LockTakesMode(f)
  BY <1>3, <1>6 DEF LockTakesMode, Answer
<1>7. CASE LockTakesSettings(f)
  BY <1>3, <1>7 DEF LockTakesSettings, Answer
<1>8. CASE LockRejects(f)
  <2>1. f.what # "status" /\ f.nonce # lockNonce
    BY <1>8 DEF LockRejects, Good
  <2>2. pc[c] # f.what
    BY <1>1, <2>1 DEF FramesOfCall, OnCourse, Queries
  <2>3. reply' = reply
    BY <1>8, <2>2 DEF LockRejects, Deliver
  <2> QED
    BY <1>2, <2>3 DEF OnCourse
<1> QED
  BY <1>4, <1>5, <1>6, <1>7, <1>8 DEF LockStep

\* Every step keeps the undisturbed calls on course.
LEMMA NextCoursesHeld ==
    TypeOK /\ FramesOfCall /\ CoursesHeld /\ [Next]_vars => CoursesHeld'
<1> SUFFICES ASSUME TypeOK, FramesOfCall, CoursesHeld, [Next]_vars PROVE CoursesHeld'
  OBVIOUS
<1>1. ASSUME NEW c \in Calls, CallStep(c) PROVE CoursesHeld'
  <2>1. lockNonce' = lockNonce /\ verified' = verified
    BY <1>1, CallMoves DEF lockVars
  <2>2. ASSUME NEW d \in Calls \ {c}, OnCourse(d) PROVE OnCourse(d)'
    BY <1>1, <2>1, <2>2, CallMoves DEF OnCourse
  <2>3. troubled \subseteq troubled'
    BY <1>1 DEF CallStep, Begin, StatusReturns, QueryReturns, ModeReturns,
                SettingsReturns, Refused, ExchangeFails, history
  <2>4. ASSUME verified, c \notin troubled', OnCourse(c) PROVE OnCourse(c)'
    <3> USE <1>1, <2>1, <2>4 DEF OnCourse, TypeOK, Send, Return, Answer, Nothing, Writes
    <3>1. CASE Begin(c)
      BY <3>1 DEF Begin
    <3>2. CASE StatusReturns(c)
      BY <3>2 DEF StatusReturns, Answered
    <3>3. CASE QueryReturns(c)
      BY <3>3 DEF QueryReturns, Answered
    <3>4. CASE ModeReturns(c)
      BY <3>4 DEF ModeReturns, Answered
    <3>5. CASE SettingsReturns(c)
      BY <3>5 DEF SettingsReturns, Answered
    <3>6. CASE Refused(c)
      BY <3>6 DEF Refused
    <3>7. CASE ExchangeFails(c)
      BY <3>7 DEF ExchangeFails
    <3> QED
      BY <3>1, <3>2, <3>3, <3>4, <3>5, <3>6, <3>7 DEF CallStep
  <2> QED
    BY <2>1, <2>2, <2>3, <2>4 DEF CoursesHeld
<1>2. ASSUME NEW f \in frames, LockStep(f) PROVE CoursesHeld'
  <2>1. ASSUME NEW d \in Calls \ {f.call}, OnCourse(d) PROVE OnCourse(d)'
    BY <1>2, <2>1, LockMoves DEF OnCourse
  <2> QED
    BY <1>2, <2>1, LockMoves, AnswerToCourse DEF CoursesHeld
<1>3. CASE LockUsed
  <2>1. \A c \in Calls \ troubled' : c \notin troubled /\ pc[c] \in {"new", "returned"}
    BY <1>3 DEF LockUsed, Running
  <2> QED
    BY <1>3, <2>1, OthersMove DEF CoursesHeld, OnCourse, callVars, Writes
<1>4. CASE AppWrites \/ OtherStatusRead \/ UNCHANGED vars
  BY <1>4 DEF AppWrites, OtherStatusRead, CoursesHeld, OnCourse, vars, callVars, lockVars,
              history
<1> QED
  BY <1>1, <1>2, <1>3, <1>4 DEF Next

\* A call that nothing disturbed succeeds, however many others there are: its
\* nonce, its reading and its check of the lock's type are all still current.
THEOREM UndisturbedSucceeds == Spec => []UndisturbedCallSucceeds
<1>1. Init => FramesOfCall /\ CoursesHeld
  BY DEF Init, FramesOfCall, CoursesHeld, OnCourse, Answer, Nothing, Writes
<1>2. CoursesHeld => UndisturbedCallSucceeds
  BY DEF CoursesHeld, OnCourse, UndisturbedCallSucceeds
<1> QED
  BY <1>1, <1>2, TypesHold, NextFramesOfCall, NextCoursesHeld, PTL DEF Spec

-----------------------------------------------------------------------------
(* Refinement.                                                             *)

\* What a step of one call does to the callers' view of all.
LEMMA ViewOfStep ==
    ASSUME TypeOK, TypeOK', NEW c \in Calls,
           \A d \in Calls \ {c} : pc'[d] = pc[d] /\ outcome'[d] = outcome[d]
    PROVE  [d \in Calls |-> OutcomeOf(d)]' =
               [[d \in Calls |-> OutcomeOf(d)] EXCEPT ![c] = OutcomeOf(c)']
BY DEF OutcomeOf, TypeOK

\* Every step is a step of the abstract specification, or none that its variables
\* show: those of a call that leave it running are not, and its return is.
LEMMA CallKeepsPromise ==
    ASSUME TypeOK, TypeOK', SafetyInv, NEW c \in Calls, CallStep(c)
    PROVE  [Promise!Next]_(Promise!vars)
<1> USE DEF Promise!vars
<1> DEFINE view == [d \in Calls |-> OutcomeOf(d)]
           written == {d \in Calls : Written(d)}
<1>1. view' = [view EXCEPT ![c] = OutcomeOf(c)'] /\ written' = written
  <2>1. view' = [view EXCEPT ![c] = OutcomeOf(c)']
    BY CallMoves, ViewOfStep
  <2> QED
    BY <2>1, CallMoves DEF Written
<1>2. ASSUME OutcomeOf(c)' = OutcomeOf(c) PROVE UNCHANGED Promise!vars
  BY <1>1, <1>2
<1>3. ASSUME OutcomeOf(c) \in {"new", "open"}, OutcomeOf(c)' = "failure"
      PROVE  Promise!Fail(c)
  BY <1>1, <1>3 DEF Promise!Fail
<1>4. CASE Begin(c)
  <2>1. OutcomeOf(c) = "new" /\ OutcomeOf(c)' \in {"open", "failure"}
    BY <1>4 DEF Begin, Send, Return, OutcomeOf, TypeOK
  <2> QED
    BY <1>1, <1>3, <2>1 DEF Promise!Next, Promise!Open
<1>5. CASE StatusReturns(c) \/ QueryReturns(c) \/ ModeReturns(c) \/ Refused(c) \/ ExchangeFails(c)
  <2>1. OutcomeOf(c) = "open" /\ OutcomeOf(c)' \in {"open", "failure"}
    <3> USE DEF OutcomeOf, TypeOK, Answered, Send, Return, Queries, Writes
    <3>1. CASE StatusReturns(c)
      BY <3>1 DEF StatusReturns
    <3>2. CASE QueryReturns(c)
      BY <3>2 DEF QueryReturns
    <3>3. CASE ModeReturns(c)
      BY <3>3 DEF ModeReturns
    <3>4. CASE Refused(c)
      BY <3>4 DEF Refused
    <3>5. CASE ExchangeFails(c)
      BY <3>5 DEF ExchangeFails
    <3> QED
      BY <1>5, <3>1, <3>2, <3>3, <3>4, <3>5
  <2> QED
    BY <1>2, <1>3, <2>1 DEF Promise!Next
<1>6. CASE SettingsReturns(c)
  <2>1. c \in written
    BY <1>6 DEF SettingsReturns, Answered, SafetyInv, AckMeansAccepted, Has, Written, Writes
  <2>2. OutcomeOf(c) = "open" /\ OutcomeOf(c)' \in {"success", "failure"}
    BY <1>6 DEF SettingsReturns, Answered, Return, OutcomeOf, TypeOK
  <2> QED
    BY <1>1, <1>3, <2>1, <2>2 DEF Promise!Next, Promise!Succeed
<1> QED
  BY <1>4, <1>5, <1>6 DEF CallStep

\* the lock may take a write of a call that has returned,
LEMMA LockKeepsPromise ==
    ASSUME TypeOK, FramesOfCall, NEW f \in frames, LockStep(f)
    PROVE  [Promise!Next]_(Promise!vars)
<1> USE DEF Promise!vars
<1> DEFINE view == [d \in Calls |-> OutcomeOf(d)]
           written == {d \in Calls : Written(d)}
<1>1. f.call \in Calls /\ view' = view
  BY LockMoves DEF OutcomeOf
<1>2. \A d \in Calls \ {f.call} : Written(d)' <=> Written(d)
  BY LockMoves DEF Written
<1>3. Written(f.call) => Written(f.call)'
  BY LockMoves DEF Written
<1>4. CASE Written(f.call)' <=> Written(f.call)
  <2>1. written' = written
    BY <1>2, <1>4
  <2> QED
    BY <1>1, <2>1
<1>5. CASE Written(f.call)' /\ ~Written(f.call)
  <2>1. written' = written \cup {f.call}
    BY <1>1, <1>2, <1>5
  <2>2. f.what # "status"
    <3>1. accepted' # accepted
      BY <1>5 DEF Written
    <3> QED
      BY <3>1 DEF LockStep, LockTellsStatus, LockTellsSettings, LockTakesMode,
                  LockTakesSettings, LockRejects
  <2>3. view[f.call] # "new"
    BY <1>1, <2>2 DEF FramesOfCall, OutcomeOf
  <2> QED
    BY <1>1, <2>1, <2>3 DEF Promise!Next, Promise!Answer
<1> QED
  BY <1>3, <1>4, <1>5

\* and what others do shows in neither.
LEMMA StepKeepsPromise ==
    TypeOK /\ TypeOK' /\ SafetyInv /\ FramesOfCall /\ [Next]_vars
    => [Promise!Next]_(Promise!vars)
<1>1. ASSUME LockUsed \/ AppWrites \/ OtherStatusRead \/ UNCHANGED vars
      PROVE  UNCHANGED Promise!vars
  BY <1>1, OthersMove DEF callVars, Promise!vars, OutcomeOf, Written
<1> QED
  BY <1>1, CallKeepsPromise, LockKeepsPromise DEF Next

\* The two services implement the specification of a single request: of the four
\* requests a call makes the caller sees one, which succeeds only once the lock
\* has taken both writes of that very call.
THEOREM AutoLockImplementsPromise == Spec => KeepsPromise
<1>1. Init => Promise!Init
  BY DEF Init, Promise!Init, OutcomeOf, Written, Writes
<1>2. Init => FramesOfCall
  BY DEF Init, FramesOfCall
<1> QED
  BY <1>1, <1>2, SafetyInvariant, NextFramesOfCall, StepKeepsPromise, PTL
     DEF Spec, Promise!Spec, KeepsPromise
=============================================================================
