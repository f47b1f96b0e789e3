------------------------------ MODULE Messages ------------------------------
(***************************************************************************)
(* What happens to a message on its way: send() turns a KafkaMessage into  *)
(* a record with six headers, the report hands the record's headers to the *)
(* send callback, and consume() turns whatever record it fetches, written  *)
(* by this producer or by another, into the caller's ReceivedMessage.      *)
(*                                                                         *)
(* A text is the sequence of its bytes, and every conversion is modelled   *)
(* by what it does to them: sprintf into its buffer, the C strings that    *)
(* the consumer reads, strncpy, the seed of the identifier in its 32 bits. *)
(* Once the program does what C++ leaves undefined, it stops here.         *)
(***************************************************************************)
EXTENDS Integers, Sequences, SequencesExt, TLC

CONSTANTS Composed,     \* the KafkaMessages an application may compose
          Foreign,      \* records that others write to the topic
          UserAgent,    \* _strUserAgent
          NoText,       \* NULL, for a key, a body or the value of a header
          BodySize,     \* of receivedMsgBody
          UINT_MAX,     \* of unsigned int, the type of the seed
          Start,        \* the clock, when the program starts
          Pauses,       \* microseconds that may pass between two readings
          MaxSends,     \* bound on send()
          MaxForeign    \* bound on the records of others

SendIds == 1 .. MaxSends
Nul == 0
Bytes == 0 .. 255
Texts == Seq(Bytes)

\* The names that send() gives to headers, and those that others have used.
Names == {"x-message-id", "x-timestamp", "x-command", "x-message-version",
          "x-content-type", "x-user-agent"}
ForeignNames == UNION {{r.headers[n][1] : n \in DOMAIN r.headers} : r \in Foreign}
Headers == Seq((Names \cup ForeignNames) \X (Texts \cup {NoText}))

\* rand_r steps a state of which a digit shows no more than the low 20 bits.
RandPeriod == 1048576

ASSUME SizesAssumption ==
  /\ BodySize \in Nat \ {0}
  /\ UINT_MAX \in Nat /\ (UINT_MAX + 1) % RandPeriod = 0
  /\ Start \in Nat /\ MaxSends \in Nat /\ MaxForeign \in Nat /\ Pauses \subseteq Nat
ASSUME TextAssumption == NoText \notin Texts /\ UserAgent \in Texts
ASSUME ComposedAssumption ==
  \A m \in Composed : m \in [key : Texts, command : Texts, version : Int,
                            contentType : Texts, contents : Texts]
ASSUME ForeignAssumption ==
  \A r \in Foreign : r \in [key : Texts \cup {NoText}, headers : Headers,
                            body : Texts \cup {NoText}]

VARIABLES clock,     \* gettimeofday, in microseconds
          sent,      \* history: what send() was called with, read and logged
          headers,   \* the header list of each send()
          owners,    \* who has to destroy it
          destroyed, \* how often it has been destroyed
          state,     \* of each send() and its message
          printed,   \* history: the identifier its send callback has printed
          log,       \* the topic, with the send() each record comes from
          next,      \* the record consume() returns next
          received,  \* the caller's ReceivedMessage
          got,       \* whether the last consume() returned true
          undefined  \* what undefined thing the program has done

vars == <<clock, sent, headers, owners, destroyed, state, printed, log, next,
          received, got, undefined>>

States == {"none", "created", "accepted", "refused", "reporting", "reported"}
Undefineds == {"no", "version", "key", "body"}

TypeOK ==
  /\ clock \in Nat
  /\ Len(sent) <= MaxSends
  /\ owners \in [SendIds -> SUBSET {"caller", "message", "report"}]
  /\ destroyed \in [SendIds -> Nat]
  /\ state \in [SendIds -> States]
  /\ next \in 1 .. Len(log) + 1
  /\ got \in BOOLEAN
  /\ undefined \in Undefineds

Init ==
  /\ clock = Start
  /\ sent = <<>>
  /\ headers = [i \in SendIds |-> <<>>]
  /\ owners = [i \in SendIds |-> {}]
  /\ destroyed = [i \in SendIds |-> 0]
  /\ state = [i \in SendIds |-> "none"]
  /\ printed = [i \in SendIds |-> NoText]
  /\ log = <<>>
  /\ next = 1
  /\ received = [key |-> <<>>, headers |-> <<>>, body |-> <<>>]
  /\ got = FALSE
  /\ undefined = "no"

-----------------------------------------------------------------------------
(* Texts.                                                                  *)

\* The C string at the beginning of s: up to the first zero byte.
CStr(s) ==
  LET zeros == {i \in DOMAIN s : s[i] = Nul}
  IN  IF zeros = {} THEN s ELSE SubSeq(s, 1, Min(zeros) - 1)

\* 10 ^ k, up to 10 ^ 18
PowersOfTen == <<1, 10, 100, 1000, 10000, 100000, 1000000, 10000000, 100000000,
                 1000000000>>
Power(k) == IF k < 10 THEN PowersOfTen[k + 1] ELSE 1000000000 * PowersOfTen[k - 8]

\* The number of digits of n, which is at most LLONG_MAX.
Digits(n) ==
  CHOOSE k \in 1 .. 19 :
    /\ k < 19 => n < Power(k)
    /\ k > 1 => n >= Power(k - 1)

\* sprintf %d and %lld
Decimal(v) ==
  LET n == IF v < 0 THEN -v ELSE v
      k == Digits(n)
  IN  (IF v < 0 THEN <<45>> ELSE <<>>)
        \o [i \in 1 .. k |-> 48 + ((n \div Power(k - i)) % 10)]

\* Mutant: only the microseconds within the second are used.
Seed_NoSeconds(us) == us % 1000000

\* The time in microseconds, in an unsigned int.
Seed(us) == us % (UINT_MAX + 1)

\* rand_r of glibc takes three steps of x * 1103515245 + 12345, here in one and
\* in the low 20 bits (in two halves, so that no product has more than 32); the
\* last four bits of what it returns are the upper four of the 20.
Rand(x) ==
  (900277 * (x % 1024) + 1024 * ((900277 * (x \div 1024)) % 1024) + 272351) % RandPeriod

\* The 37 digits that are drawn when the low 20 bits of the seed are x.
Drawn(x) ==
  LET low[n \in 0 .. 37] == IF n = 0 THEN x ELSE Rand(low[n - 1])
  IN  [n \in 1 .. 37 |-> low[n] \div 65536]

Hex(d) == IF d < 10 THEN 48 + d ELSE 55 + d

\* & (0x03 | 0x08)
Variant(d) == d - ((d \div 4) % 2) * 4

\* xxxxxxxx-xxxx-4xxx-yxxx-xxxxxxxxxxxx: a digit is drawn for every character.
Hyphens == {9, 14, 19, 24}
Uuid(seed) ==
  LET drawn == Drawn(seed % RandPeriod)
  IN  [i \in 1 .. 36 |-> CASE i \in Hyphens -> 45
                           [] i = 15 -> Hex(4)
                           [] i = 20 -> Hex(Variant(drawn[i]))
                           [] OTHER -> Hex(drawn[i])]

-----------------------------------------------------------------------------
(* KafkaProducer::send                                                     *)

\* Mutant: the buffer has four bytes.
Overflows_Narrow(version) == Len(Decimal(version)) + 1 > 4

\* The version and its zero byte are printed into five bytes.
Overflows(version) == Len(Decimal(version)) + 1 > 5

\* Mutant: the header gets an identifier of its own.
CreateHeaders_Again(m, id, ms) ==
  << <<"x-message-id", Uuid(Seed(ms))>>,
     <<"x-timestamp", Decimal(ms)>>,
     <<"x-command", m.command>>,
     <<"x-message-version", Decimal(m.version)>>,
     <<"x-content-type", m.contentType>>,
     <<"x-user-agent", UserAgent>> >>

\* _createKafkaHeader: the names and values that are added.
CreateHeaders(m, id, ms) ==
  << <<"x-message-id", id>>,
     <<"x-timestamp", Decimal(ms)>>,
     <<"x-command", m.command>>,
     <<"x-message-version", Decimal(m.version)>>,
     <<"x-content-type", m.contentType>>,
     <<"x-user-agent", UserAgent>> >>

Sending == \E i \in SendIds : state[i] = "created"

\* The header list is made; the clock is read for the timestamp, then for the
\* seed of the identifier, which is also logged.
Create(m) ==
  /\ undefined = "no"
  /\ ~Sending
  /\ Len(sent) < MaxSends
  /\ \E before, between \in Pauses :
       LET i  == Len(sent) + 1
           ms == (clock + before) \div 1000
           us == clock + before + between
           id == Uuid(Seed(us))
       IN  /\ clock' = us
           /\ sent' = Append(sent, [message |-> m, at |-> us, ms |-> ms, id |-> id])
           /\ headers' = [headers EXCEPT ![i] = CreateHeaders(m, id, ms)]
           /\ owners' = [owners EXCEPT ![i] = {"caller"}]
           /\ state' = [state EXCEPT ![i] = "created"]
  /\ undefined' = IF Overflows(m.version) THEN "version" ELSE "no"
  /\ UNCHANGED <<destroyed, printed, log, next, received, got>>

\* produce() takes the message, and the header list with it.
Accepted(i) ==
  /\ undefined = "no"
  /\ state[i] = "created"
  /\ state' = [state EXCEPT ![i] = "accepted"]
  /\ owners' = [owners EXCEPT ![i] = {"message"}]
  /\ UNCHANGED <<clock, sent, headers, destroyed, printed, log, next, received,
                 got, undefined>>

\* produce() refuses it: send() deletes the list and returns false.
Refused(i) ==
  /\ undefined = "no"
  /\ state[i] = "created"
  /\ state' = [state EXCEPT ![i] = "refused"]
  /\ owners' = [owners EXCEPT ![i] = {}]
  /\ destroyed' = [destroyed EXCEPT ![i] = @ + 1]
  /\ UNCHANGED <<clock, sent, headers, printed, log, next, received, got,
                 undefined>>

-----------------------------------------------------------------------------
(* The topic, and the delivery report.                                     *)

\* The broker writes the record of an accepted message, perhaps.
Written(i) ==
  /\ undefined = "no"
  /\ state[i] = "accepted"
  /\ \A n \in DOMAIN log : log[n].from # i
  /\ log' = Append(log, [from |-> i, key |-> sent[i].message.key,
                         headers |-> headers[i],
                         body |-> sent[i].message.contents])
  /\ UNCHANGED <<clock, sent, headers, owners, destroyed, state, printed, next,
                 received, got, undefined>>

\* Another producer writes a record.
WrittenByOther(r) ==
  /\ undefined = "no"
  /\ Cardinality({n \in DOMAIN log : log[n].from = 0}) < MaxForeign
  /\ log' = Append(log, [from |-> 0, key |-> r.key, headers |-> r.headers,
                         body |-> r.body])
  /\ UNCHANGED <<clock, sent, headers, owners, destroyed, state, printed, next,
                 received, got, undefined>>

\* HeadersImpl::get: the value of the first header with that name.
Get(hs, name) == hs[Min({n \in DOMAIN hs : hs[n][1] = name})][2]

\* Mutant: the message keeps the list it has handed out.
Report_NotDetached(i) ==
  /\ undefined = "no"
  /\ state[i] = "accepted"
  /\ state' = [state EXCEPT ![i] = "reporting"]
  /\ \/ /\ owners' = [owners EXCEPT ![i] = @ \cup {"report"}]
        /\ printed' = [printed EXCEPT ![i] = CStr(Get(headers[i], "x-message-id"))]
     \/ UNCHANGED <<owners, printed>>
  /\ UNCHANGED <<clock, sent, headers, destroyed, log, next, received, got,
                 undefined>>

\* A report is handed to the send callback.  The default one asks for the
\* headers (MessageImpl::headers detaches them from the message) and prints
\* the identifier, on success as on failure; one of the application's own
\* need not.
Report(i) ==
  /\ undefined = "no"
  /\ state[i] = "accepted"
  /\ state' = [state EXCEPT ![i] = "reporting"]
  /\ \/ /\ owners' = [owners EXCEPT ![i] = (@ \ {"message"}) \cup {"report"}]
        /\ printed' = [printed EXCEPT ![i] = CStr(Get(headers[i], "x-message-id"))]
     \/ UNCHANGED <<owners, printed>>
  /\ UNCHANGED <<clock, sent, headers, destroyed, log, next, received, got,
                 undefined>>

\* After the callback ~MessageImpl deletes the headers it has detached, and
\* the library destroys the message with those that it still has.
Reported(i) ==
  /\ undefined = "no"
  /\ state[i] = "reporting"
  /\ state' = [state EXCEPT ![i] = "reported"]
  /\ destroyed' = [destroyed EXCEPT ![i] = @ + Cardinality(owners[i])]
  /\ owners' = [owners EXCEPT ![i] = {}]
  /\ UNCHANGED <<clock, sent, headers, printed, log, next, received, got,
                 undefined>>

-----------------------------------------------------------------------------
(* KafkaConsumer::consume                                                  *)

\* Mutant: the first header of a name stays.
ReceivedHeaders_First(hs) ==
  LET given == {n \in DOMAIN hs : hs[n][2] # NoText}
  IN  [name \in {hs[n][1] : n \in given} |->
         CStr(hs[Min({n \in given : hs[n][1] = name})][2])]

\* The headers that have a value, the last one of each name, as C strings.
ReceivedHeaders(hs) ==
  LET given == {n \in DOMAIN hs : hs[n][2] # NoText}
  IN  [name \in {hs[n][1] : n \in given} |->
         CStr(hs[Max({n \in given : hs[n][1] = name})][2])]

\* receivedMsgBody, cleared, after strncpy: zeros after the C string.
Buffer(payload) ==
  [i \in 1 .. BodySize |-> IF i <= Len(CStr(payload)) THEN payload[i] ELSE Nul]

\* A body that strncpy or the string made of the buffer cannot take: NULL, one
\* that goes past the buffer (strncpy fills up what it is told to), or one that
\* leaves no zero in it.
Misfits(body) ==
  \/ body = NoText
  \/ Len(body) > BodySize
  \/ Len(CStr(body)) = BodySize

\* What is undefined in the conversion of record r.
Harm(r) ==
  CASE r.key = NoText -> "key"
    [] r.key # NoText /\ Misfits(r.body) -> "body"
    [] OTHER -> "no"

\* Mutant: the buffer is not cleared and holds what the last call has left.
ReadInto_NoMemset(r, old) ==
  LET copied == CStr(r.body)
  IN  [key |-> CStr(r.key), headers |-> ReceivedHeaders(r.headers),
       body |-> copied \o SubSeq(old.body, Len(copied) + 1, Len(old.body))]

\* Key, headers and body replace what the caller's ReceivedMessage held.
ReadInto(r, old) ==
  [key |-> CStr(r.key), headers |-> ReceivedHeaders(r.headers),
   body |-> CStr(Buffer(r.body))]

\* A record is returned.
Consume ==
  /\ undefined = "no"
  /\ next <= Len(log)
  /\ next' = next + 1
  /\ undefined' = Harm(log[next])
  /\ got' = (undefined' = "no")
  /\ received' = IF got' THEN ReadInto(log[next], received) ELSE received
  /\ UNCHANGED <<clock, sent, headers, owners, destroyed, state, printed, log>>

\* Mutant: the record after it is skipped.
ConsumeFails_Skips ==
  /\ undefined = "no"
  /\ got' = FALSE
  /\ next' = next + 1
  /\ UNCHANGED <<clock, sent, headers, owners, destroyed, state, printed, log,
                 received, undefined>>

\* An error event or a time-out: false, and ReceivedMessage stays as it was.
ConsumeFails ==
  /\ undefined = "no"
  /\ got' = FALSE
  /\ UNCHANGED <<clock, sent, headers, owners, destroyed, state, printed, log,
                 next, received, undefined>>

-----------------------------------------------------------------------------

Next ==
  \/ \E m \in Composed : Create(m)
  \/ \E i \in SendIds : \/ Accepted(i) \/ Refused(i) \/ Written(i)
                        \/ Report(i) \/ Reported(i)
  \/ \E r \in Foreign : WrittenByOther(r)
  \/ Consume
  \/ ConsumeFails

Spec == Init /\ [][Next]_vars

-----------------------------------------------------------------------------
(* Properties.                                                             *)

\* What consume() returns of a message of this producer is, text by text, what
\* was sent up to its first zero byte: the key, the body and the six headers
\* (KafkaProducer::_createKafkaHeader against KafkaConsumer::consume).
ReadsBack ==
  (got /\ log[next - 1].from # 0) =>
    LET s == sent[log[next - 1].from]
        m == s.message
    IN  /\ received.key = CStr(m.key)
        /\ received.body = CStr(m.contents)
        /\ received.headers =
             [name \in Names |->
                CASE name = "x-message-id" -> s.id
                  [] name = "x-timestamp" -> Decimal(s.ms)
                  [] name = "x-command" -> CStr(m.command)
                  [] name = "x-message-version" -> Decimal(m.version)
                  [] name = "x-content-type" -> CStr(m.contentType)
                  [] name = "x-user-agent" -> CStr(UserAgent)]

\* The headers that consume() returns are those of one record, whoever wrote
\* it: each value is one of that record's for the name and no later header of
\* the name has a value; a name is missing only if all its values are NULL.
\* The ReceivedMessage that the caller passes again leaves nothing behind.
OfOneRecord ==
  got => LET hs == log[next - 1].headers
             Valued(name) == {n \in DOMAIN hs : hs[n][1] = name /\ hs[n][2] # NoText}
         IN  /\ \A name \in DOMAIN received.headers : \E n \in Valued(name) :
                  /\ received.headers[name] = CStr(hs[n][2])
                  /\ \A k \in Valued(name) : k <= n
             /\ \A n \in DOMAIN hs :
                  hs[n][1] \notin DOMAIN received.headers => hs[n][2] = NoText

\* The versions that have at most four characters.
Short == -999 .. 9999

\* Nothing undefined happens as long as versions have at most four characters,
\* and what is consumed has a key, and a body, shorter than the buffer (line
\* 182 of KafkaConsumer.cpp, line 294 of KafkaProducer.cpp).
PlainIsDefined ==
  (/\ \A i \in DOMAIN sent : sent[i].message.version \in Short
   /\ \A n \in DOMAIN log : /\ log[n].key # NoText /\ log[n].body # NoText
                            /\ Len(log[n].body) < BodySize)
     => undefined = "no"

\* A header list has one owner until it is destroyed, once: send() when the
\* message is refused, the message or, after the callback has asked for the
\* headers, the report that detached them.
FreedOnce ==
  \A i \in SendIds :
    Cardinality(owners[i]) + destroyed[i] = IF state[i] = "none" THEN 0 ELSE 1

\* _getRandomUUID gives the same identifier exactly when the clock shows the
\* same microsecond of a turn of 2^20 of them, 1.048576 seconds: the seed keeps
\* 32 bits, the digits depend on 20, and 20 bits show in the digits.
IdsRepeatByPeriod ==
  \A i, j \in DOMAIN sent :
    sent[i].id = sent[j].id <=> sent[i].at % RandPeriod = sent[j].at % RandPeriod

\* send() logs, the send callback prints and the consumer receives the same
\* identifier, so that a message can be followed from one to the other.
SameIdEverywhere ==
  /\ \A i \in SendIds : printed[i] # NoText => printed[i] = sent[i].id
  /\ (got /\ log[next - 1].from # 0)
       => received.headers["x-message-id"] = sent[log[next - 1].from].id

\* Refuted: what _getRandomUUID returns is a UUID of version 4, as its comment
\* and its template 4xxx-yxxx say: the variant digit is 8, 9, A or B.
IdIsUuid ==
  \A i \in DOMAIN sent :
    /\ Len(sent[i].id) = 36
    /\ \A n \in 1 .. 36 : sent[i].id[n] = 45 <=> n \in {9, 14, 19, 24}
    /\ sent[i].id[15] = 52
    /\ sent[i].id[20] \in {56, 57, 65, 66}

=============================================================================
