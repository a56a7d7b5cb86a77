--------------------------- MODULE EspduinoProofs ---------------------------
(***************************************************************************)
(* What a call of the espduino library returns: for buffers of any size,   *)
(* any number of requests, answers, time-outs and damaged tokens.  And     *)
(* what the framing delivers: for frames and buffers of any size, any      *)
(* bytes before a frame and whatever the checksum function computes.       *)
(***************************************************************************)
EXTENDS Espduino, EspSlip, TLAPS

Cmds == {"none", "CMD_IS_READY", "CMD_RESET", "CMD_REST_SETUP", "CMD_REST_SETHEADER",
         "CMD_REST_REQUEST", "CMD_REST_EVENTS"}
Tok == [kind : {"start", "body", "end", "bad"}, cmd : Cmds, id : Nat, val : {0, 1}]

\* The calls that send, and those that wait for an answer.
Sends == {"ready", "reset", "begin", "header", "request"}
Waits == {"ready", "begin", "header", "response"}

\* The numbers of the requests that tokens belong to.
Ids(s) == {x.id : x \in Range(s)}
Below(A, B) == \A a \in A, b \in B : a < b

\* Tokens of one frame follow each other, frames are in the order of their
\* requests, and the last one is whole.
Same(x, y) == x.cmd = y.cmd /\ x.id = y.id
Follows(x, y) ==
    \/ x.kind = "start" /\ y.kind = "body" /\ Same(x, y)
    \/ x.kind = "body" /\ y.kind = "end" /\ Same(x, y)
    \/ x.kind = "end" /\ y.kind = "start" /\ x.id < y.id
Wired(s) ==
    /\ \A i \in 1 .. Len(s) - 1 : Follows(s[i], s[i + 1])
    /\ \A i, j \in 1 .. Len(s) : i < j => s[i].id <= s[j].id
    /\ s # <<>> => s[Len(s)].kind = "end"

ToSend == e_tx \o out       \* what the ESP8266 has not received
Coming == e_rx \o line      \* what the parser has not seen
TakenIds == {taken[i][2] : i \in 1 .. Len(taken)}

EspTypeOK ==
    /\ e_tx \in Seq(Tok) /\ e_rx \in Seq(Tok) /\ out \in Seq(Tok)
    /\ heard \in Seq(Tok) /\ pending \in Seq(Tok) /\ line \in Seq(Tok)
    /\ first \in Tok /\ e_return_value \in Tok
    /\ nreq \in Nat /\ noise \in Nat
    /\ taken \in Seq(Cmds \X Nat)

\* Requests reach the ESP8266 whole and in order: nothing is lost on the way.
Upward ==
    /\ Wired(ToSend)
    /\ heard = <<>> /\ ToSend # <<>> => ToSend[1].kind = "start"
    /\ heard # <<>> => /\ ToSend # <<>>
                       /\ heard[Len(heard)].kind # "end"
                       /\ Follows(heard[Len(heard)], ToSend[1])
                       /\ \A x \in Range(heard) : x.id = ToSend[1].id
    /\ \A i, j \in 1 .. Len(pending) : i < j => pending[i].id < pending[j].id
    /\ Below(Ids(pending), Ids(ToSend))
    /\ Ids(pending) \subseteq 1 .. nreq /\ Ids(ToSend) \subseteq 1 .. nreq

\* So do answers, if the line loses nothing; where a body has been taken the
\* parser has it, and an answer is older than any request not yet answered.
Downward ==
    noise = 0 =>
        /\ Wired(Coming)
        /\ Coming # <<>> /\ Coming[1].kind = "body" => dataLen = 0
        /\ Coming # <<>> /\ Coming[1].kind = "end"
             => first.kind = "body" /\ Same(first, Coming[1])
        /\ Ids(Coming) \subseteq 1 .. nreq
        /\ Below(Ids(Coming), Ids(pending)) /\ Below(Ids(Coming), Ids(ToSend))

\* Answers have been taken in the order of their requests, and all that is on
\* its way is younger.
Once ==
    noise = 0 =>
        /\ \A i, j \in 1 .. Len(taken) : i < j => taken[i][2] < taken[j][2]
        /\ TakenIds \subseteq 1 .. nreq
        /\ Below(TakenIds, Ids(Coming)) /\ Below(TakenIds, Ids(pending))
        /\ Below(TakenIds, Ids(ToSend))

\* A body that is not damaged belongs to a request, whatever is lost.
Real(x) == x.kind = "body" => x.id \in 1 .. nreq
Bodies ==
    /\ \A x \in Range(e_rx) : Real(x)
    /\ \A x \in Range(line) : Real(x)
    /\ Real(first)

\* What is left to write of a request, and the command that esp_request_start
\* recorded with its body.
Writing(frame) ==
    \/ out = frame
    \/ out = <<frame[2], frame[3]>>
    \/ out = <<frame[3]>> /\ e_cur_cmd = Command(op)
    \/ out = <<>> /\ e_cur_cmd = Command(op)

Waiting == pc \in {"look", "proc"} /\ op \in Waits

\* Where the task is, and what the wait loops rely on.
Calling ==
    /\ pc = "send" => /\ op \in Sends
                      /\ Writing(Frame(Command(op), nreq, 0))
                      /\ op = "ready" => ~e_is_return
    /\ pc # "send" => out = <<>>
    /\ pc = "look" => op \in Waits
    /\ pc = "proc" => op \in Waits \cup {"process"}
    /\ Waiting => e_cur_cmd = Command(op)
    /\ Waiting /\ op = "response" => e_cur_cb /\ in_prog

\* The flag is set only for an answer to the command of the call.
Answer ==
    Waiting /\ e_is_return =>
        e_return_value.cmd = Command(op) /\ e_return_value.id \in 1 .. nreq

\* When no older answer was outstanding there is none but that to the call.
Mine ==
    noise = 0 /\ ~owed =>
        /\ pc \in {"send", "look", "proc"} /\ op \in {"ready", "begin", "header"} =>
             \A x \in Outstanding : AnswerTo(x.cmd) = Command(op) => x.id = nreq
        /\ Waiting /\ op = "response" => \A x \in Outstanding : x.id = nreq
        /\ Waiting /\ e_is_return => e_return_value.id = nreq
        /\ Waiting /\ e_is_return /\ op = "response" =>
             res /\ first = e_return_value /\ nreq \in TakenIds

Tokens == EspTypeOK /\ Upward /\ Downward /\ Once /\ Bodies
EspInv == Tokens /\ Calling /\ Answer /\ Mine

-----------------------------------------------------------------------------
(* Sequences of tokens *)

LEMMA TokIs ==
    ASSUME NEW x \in Tok
    PROVE  x.id \in Nat /\ x.cmd \in Cmds /\ x.kind \in {"start", "body", "end", "bad"}
  BY DEF Tok

LEMMA AppendType ==
    ASSUME NEW S, NEW s \in Seq(S), NEW e \in S
    PROVE  Append(s, e) \in Seq(S)
  OBVIOUS

LEMMA RangeIs ==
    ASSUME NEW s \in Seq(Tok)
    PROVE  /\ Range(s) = {s[i] : i \in 1 .. Len(s)}
           /\ Range(s) \subseteq Tok
           /\ Len(s) \in Nat
           /\ \A i \in 1 .. Len(s) : s[i] \in Range(s)
  BY DEF Range

LEMMA EmptyRange == Range(<<>>) = {} /\ Ids(<<>>) = {} /\ Wired(<<>>)
  BY DEF Range, Ids, Wired

\* The token that comes next, and those behind it.
LEMMA HeadTail ==
    ASSUME NEW s \in Seq(Tok), s # <<>>
    PROVE  /\ Head(s) \in Tok /\ Head(s) = s[1] /\ Tail(s) \in Seq(Tok)
           /\ Range(s) = {Head(s)} \cup Range(Tail(s))
           /\ Ids(s) = {Head(s).id} \cup Ids(Tail(s))
<1> DEFINE t == Tail(s)
<1>1. /\ Len(s) \in Nat /\ Len(s) > 0 /\ t \in Seq(Tok) /\ Len(t) = Len(s) - 1
      /\ Head(s) = s[1] /\ s[1] \in Tok
      /\ \A i \in 1 .. Len(s) - 1 : t[i] = s[i + 1]
  OBVIOUS
<1> HIDE DEF t
<1>2. Range(s) = {s[i] : i \in 1 .. Len(s)} /\ Range(t) = {t[i] : i \in 1 .. Len(t)}
  BY <1>1, RangeIs
<1>3. \A i \in 1 .. Len(s) : i = 1 \/ (i - 1 \in 1 .. Len(s) - 1 /\ t[i - 1] = s[i])
  BY <1>1
<1>4. \A i \in 1 .. Len(s) - 1 : i + 1 \in 1 .. Len(s) /\ t[i] = s[i + 1]
  BY <1>1
<1>5. 1 \in 1 .. Len(s)
  BY <1>1
<1>6. \A x \in Range(s) : x = s[1] \/ x \in Range(t)
  BY <1>1, <1>2, <1>3
<1>7. \A x \in Range(t) : x \in Range(s)
  BY <1>1, <1>2, <1>4
<1>8. Range(s) = {s[1]} \cup Range(t)
  BY <1>2, <1>5, <1>6, <1>7
<1>9. Ids(s) = {s[1].id} \cup Ids(t)
  BY <1>8, Zenon DEF Ids
<1>10. QED
  BY <1>1, <1>8, <1>9 DEF t

\* Taking the next token leaves the order.
LEMMA WiredTail ==
    ASSUME NEW s \in Seq(Tok), s # <<>>, Wired(s)
    PROVE  /\ Wired(Tail(s))
           /\ Head(s).kind \in {"start", "body", "end"}
           /\ Tail(s) = <<>> => Head(s).kind = "end"
           /\ Tail(s) # <<>> => Follows(Head(s), Tail(s)[1])
           /\ Head(s).kind = "end" => Below({Head(s).id}, Ids(Tail(s)))
           /\ \A k \in Ids(Tail(s)) : Head(s).id <= k
<1> DEFINE t == Tail(s)
<1>1. /\ Len(s) \in Nat /\ Len(s) > 0 /\ t \in Seq(Tok) /\ Len(t) = Len(s) - 1
      /\ Head(s) = s[1] /\ s[1] \in Tok
      /\ \A i \in 1 .. Len(s) - 1 : t[i] = s[i + 1]
  OBVIOUS
<1> HIDE DEF t
<1>0. t = <<>> <=> Len(s) = 1
  <2>1. t = <<>> <=> Len(t) = 0
    BY <1>1
  <2>2. QED
    BY <1>1, <2>1
<1>2. Range(t) = {t[i] : i \in 1 .. Len(t)}
  BY <1>1, RangeIs
<1>3. Wired(t)
  <2>1. \A i \in 1 .. Len(t) - 1 : Follows(t[i], t[i + 1])
    BY <1>1 DEF Wired
  <2>2. \A i, j \in 1 .. Len(t) : i < j => t[i].id <= t[j].id
    BY <1>1 DEF Wired
  <2>3. t # <<>> => t[Len(t)] = s[Len(s)]
    BY <1>0, <1>1
  <2>4. QED
    BY <2>1, <2>2, <2>3 DEF Wired
<1>4. t # <<>> => Follows(s[1], t[1])
  <2>1. t # <<>> => 1 \in 1 .. Len(s) - 1 /\ t[1] = s[1 + 1]
    BY <1>0, <1>1
  <2>2. QED
    BY <2>1 DEF Wired
<1>5. s[1].kind \in {"start", "body", "end"} /\ (t = <<>> => s[1].kind = "end")
  BY <1>0, <1>1, <1>4 DEF Wired, Follows
<1>6. \A i \in 1 .. Len(t) : t[1].id <= t[i].id /\ s[1].id <= t[i].id
  <2>1. \A i \in 1 .. Len(s) : s[i].id \in Nat
    <3>1. \A i \in 1 .. Len(s) : s[i] \in Tok
      OBVIOUS
    <3>2. QED
      BY <3>1, TokIs
  <2>2. \A i, j \in 1 .. Len(s) : i <= j => s[i].id <= s[j].id
    BY <1>1, <2>1 DEF Wired
  <2>3. \A i \in 1 .. Len(t) : /\ i + 1 \in 1 .. Len(s) /\ 2 \in 1 .. Len(s) /\ 1 \in 1 .. Len(s)
                              /\ t[1] = s[2] /\ t[i] = s[i + 1] /\ 2 <= i + 1 /\ 1 <= i + 1
    BY <1>1
  <2>4. QED
    BY <2>2, <2>3
<1>7. \A i \in 1 .. Len(t) : s[1].kind = "end" => s[1].id < t[i].id
  <2>1. \A i \in 1 .. Len(t) : t[i].id \in Nat /\ t # <<>> /\ 1 \in 1 .. Len(t)
    <3>1. \A i \in 1 .. Len(t) : t[i] \in Tok /\ t # <<>> /\ 1 \in 1 .. Len(t)
      BY <1>1
    <3>2. QED
      BY <3>1, TokIs
  <2>2. s[1].id \in Nat
    BY <1>1, TokIs
  <2>3. t # <<>> /\ s[1].kind = "end" => s[1].id < t[1].id
    BY <1>4 DEF Follows
  <2>4. QED
    BY <1>6, <2>1, <2>2, <2>3
<1>8. \A k \in Ids(t) : \E i \in 1 .. Len(t) : k = t[i].id
  BY <1>1, <1>2 DEF Ids
<1>9. (s[1].kind = "end" => Below({s[1].id}, Ids(t))) /\ \A k \in Ids(t) : s[1].id <= k
  BY <1>6, <1>7, <1>8 DEF Below
<1>10. QED
  BY <1>1, <1>3, <1>4, <1>5, <1>9 DEF t

LEMMA Places ==
    ASSUME NEW s \in Seq(Tok), NEW t \in Seq(Tok)
    PROVE  /\ Len(s) \in Nat /\ Len(t) \in Nat
           /\ s \o t \in Seq(Tok) /\ Len(s \o t) = Len(s) + Len(t)
           /\ \A i \in 1 .. Len(s) : (s \o t)[i] = s[i]
           /\ \A i \in 1 .. Len(t) : (s \o t)[Len(s) + i] = t[i]
  OBVIOUS

\* The ends of a row of tokens that is moved on by one.
LEMMA Joined ==
    ASSUME NEW s \in Seq(Tok), NEW t \in Seq(Tok)
    PROVE  /\ s \o t \in Seq(Tok)
           /\ Range(s \o t) = Range(s) \cup Range(t)
           /\ Ids(s \o t) = Ids(s) \cup Ids(t)
           /\ s # <<>> => s \o t # <<>> /\ (s \o t)[1] = Head(s) /\ Tail(s \o t) = Tail(s) \o t
           /\ s = <<>> => s \o t = t
           /\ t = <<>> => s \o t = s
<1> DEFINE c == s \o t
<1>1. /\ Len(s) \in Nat /\ Len(t) \in Nat /\ c \in Seq(Tok) /\ Len(c) = Len(s) + Len(t)
      /\ \A i \in 1 .. Len(s) : c[i] = s[i]
      /\ \A i \in 1 .. Len(t) : c[Len(s) + i] = t[i]
  OBVIOUS
<1>2. /\ s = <<>> => c = t
      /\ t = <<>> => c = s
      /\ s # <<>> => c # <<>> /\ c[1] = Head(s)
  OBVIOUS
<1>3. s # <<>> => Tail(c) = Tail(s) \o t
  OBVIOUS
<1> HIDE DEF c
<1>4. /\ Range(c) = {c[i] : i \in 1 .. Len(c)} /\ Range(s) = {s[i] : i \in 1 .. Len(s)}
      /\ Range(t) = {t[i] : i \in 1 .. Len(t)}
  <2>1. \A r \in Seq(Tok) : Range(r) = {r[i] : i \in 1 .. Len(r)}
    BY DEF Range
  <2>2. QED
    BY <1>1, <2>1, Zenon
<1>5. \A i \in 1 .. Len(c) : i \in 1 .. Len(s) \/ \E j \in 1 .. Len(t) : i = Len(s) + j
  <2>1. ASSUME NEW i \in 1 .. Len(c), i \notin 1 .. Len(s)
        PROVE  i - Len(s) \in 1 .. Len(t) /\ i = Len(s) + (i - Len(s))
    BY <1>1, <2>1
  <2>2. QED
    BY <2>1
<1>6. /\ \A i \in 1 .. Len(s) : i \in 1 .. Len(c)
      /\ \A i \in 1 .. Len(t) : Len(s) + i \in 1 .. Len(c)
  BY <1>1
<1>7. ASSUME NEW x \in Range(c) PROVE x \in Range(s) \cup Range(t)
  <2>1. PICK i \in 1 .. Len(c) : x = c[i]
    BY <1>4
  <2>2. CASE i \in 1 .. Len(s)
    BY <1>1, <1>4, <2>1, <2>2
  <2>3. CASE \E j \in 1 .. Len(t) : i = Len(s) + j
    BY <1>1, <1>4, <2>1, <2>3
  <2>4. QED
    BY <1>5, <2>2, <2>3
<1>8. \A x \in Range(s) \cup Range(t) : x \in Range(c)
  BY <1>1, <1>4, <1>6
<1>9. Range(c) = Range(s) \cup Range(t)
  BY <1>7, <1>8
<1>10. Ids(c) = Ids(s) \cup Ids(t)
  BY <1>9, Zenon DEF Ids
<1>11. QED
  BY <1>1, <1>2, <1>3, <1>9, <1>10 DEF c

LEMMA MovedOn ==
    ASSUME NEW s \in Seq(Tok), NEW t \in Seq(Tok), t # <<>>
    PROVE  /\ Append(s, Head(t)) \in Seq(Tok)
           /\ Append(s, Head(t)) \o Tail(t) = s \o t
  OBVIOUS

LEMMA Appended ==
    ASSUME NEW s \in Seq(Tok), NEW x \in Tok
    PROVE  /\ Append(s, x) \in Seq(Tok)
           /\ Range(Append(s, x)) = Range(s) \cup {x}
           /\ Ids(Append(s, x)) = Ids(s) \cup {x.id}
           /\ Append(s, x) # <<>> /\ Append(s, x)[Len(Append(s, x))] = x
<1> DEFINE c == Append(s, x)
<1>1. /\ Len(s) \in Nat /\ c \in Seq(Tok) /\ Len(c) = Len(s) + 1 /\ c # <<>>
      /\ \A i \in 1 .. Len(s) : c[i] = s[i]
      /\ c[Len(s) + 1] = x
  OBVIOUS
<1> HIDE DEF c
<1>2. Range(c) = {c[i] : i \in 1 .. Len(c)} /\ Range(s) = {s[i] : i \in 1 .. Len(s)}
  BY <1>1 DEF Range
<1>3. \A i \in 1 .. Len(c) : i \in 1 .. Len(s) \/ i = Len(s) + 1
  BY <1>1
<1>4. Len(s) + 1 \in 1 .. Len(c) /\ \A i \in 1 .. Len(s) : i \in 1 .. Len(c)
  BY <1>1
<1>5. \A y \in Range(c) : y \in Range(s) \cup {x}
  BY <1>1, <1>2, <1>3
<1>6. \A y \in Range(s) \cup {x} : y \in Range(c)
  BY <1>1, <1>2, <1>4
<1>7. Range(c) = Range(s) \cup {x}
  BY <1>5, <1>6
<1>8. Ids(c) = Ids(s) \cup {x.id}
  BY <1>7, Zenon DEF Ids
<1>9. QED
  BY <1>1, <1>7, <1>8 DEF c

LEMMA FrameIs ==
    ASSUME NEW c \in Cmds, NEW k \in Nat, NEW v \in {0, 1}, NEW f, f = Frame(c, k, v)
    PROVE  /\ f \in Seq(Tok) /\ Len(f) = 3 /\ f # <<>>
           /\ f[1].kind = "start" /\ f[2].kind = "body" /\ f[3].kind = "end"
           /\ \A i \in 1 .. 3 : f[i].cmd = c /\ f[i].id = k
           /\ Range(f) = {f[1], f[2], f[3]} /\ Ids(f) = {k}
           /\ f = <<f[1], f[2], f[3]>>
<1>1. Token("start", c, k, 0) \in Tok /\ Token("body", c, k, v) \in Tok
        /\ Token("end", c, k, 0) \in Tok
  BY DEF Token, Tok
<1>2. f = <<Token("start", c, k, 0), Token("body", c, k, v), Token("end", c, k, 0)>>
  BY DEF Frame
<1>3. /\ f \in Seq(Tok) /\ Len(f) = 3 /\ f # <<>>
      /\ f[1] = Token("start", c, k, 0) /\ f[2] = Token("body", c, k, v)
      /\ f[3] = Token("end", c, k, 0) /\ f = <<f[1], f[2], f[3]>>
  BY <1>1, <1>2
<1>4. /\ f[1].kind = "start" /\ f[2].kind = "body" /\ f[3].kind = "end"
      /\ f[1].cmd = c /\ f[2].cmd = c /\ f[3].cmd = c
      /\ f[1].id = k /\ f[2].id = k /\ f[3].id = k
  BY <1>3 DEF Token
<1>5. Range(f) = {f[i] : i \in 1 .. 3}
  BY <1>3 DEF Range
<1>6. Range(f) = {f[1], f[2], f[3]}
  BY <1>5
<1>7. Ids(f) = {k}
  BY <1>4, <1>6 DEF Ids
<1>8. \A i \in 1 .. 3 : f[i].cmd = c /\ f[i].id = k
  <2>1. \A i \in 1 .. 3 : i = 1 \/ i = 2 \/ i = 3
    OBVIOUS
  <2>2. QED
    BY <1>4, <2>1
<1>9. QED
  BY <1>3, <1>4, <1>6, <1>7, <1>8

\* A frame of a younger request goes behind the others.
LEMMA FrameAppended ==
    ASSUME NEW s \in Seq(Tok), Wired(s), NEW c \in Cmds, NEW k \in Nat, NEW v \in {0, 1},
           Below(Ids(s), {k}), NEW f, f = Frame(c, k, v)
    PROVE  Wired(s \o f)
<1>1. /\ f \in Seq(Tok) /\ Len(f) = 3
      /\ f[1].kind = "start" /\ f[2].kind = "body" /\ f[3].kind = "end"
      /\ \A i \in 1 .. 3 : f[i].cmd = c /\ f[i].id = k
  BY FrameIs
<1>2. /\ f[1].cmd = c /\ f[2].cmd = c /\ f[3].cmd = c
      /\ f[1].id = k /\ f[2].id = k /\ f[3].id = k
  BY <1>1
<1> DEFINE w == s \o f
           n == Len(s)
<1>3. /\ n \in Nat /\ w \in Seq(Tok) /\ Len(w) = n + 3 /\ w # <<>>
      /\ \A i \in 1 .. n : w[i] = s[i]
      /\ w[n + 1] = f[1] /\ w[n + 2] = f[2] /\ w[n + 3] = f[3]
  <2>1. /\ n \in Nat /\ w \in Seq(Tok) /\ Len(w) = n + 3
        /\ \A i \in 1 .. n : w[i] = s[i]
        /\ \A i \in 1 .. Len(f) : w[n + i] = f[i]
    BY <1>1, Places
  <2>2. 1 \in 1 .. Len(f) /\ 2 \in 1 .. Len(f) /\ 3 \in 1 .. Len(f)
    BY <1>1
  <2> HIDE DEF w, n
  <2>3. w # <<>>
    BY <2>1
  <2>4. QED
    BY <2>1, <2>2, <2>3
<1>4. \A i \in 1 .. n : s[i].id \in Nat /\ s[i].id < k
  <2>1. \A i \in 1 .. n : s[i] \in Range(s) /\ s[i] \in Tok
    BY RangeIs
  <2>2. QED
    BY <2>1 DEF Below, Ids, Tok
<1>5. n > 0 => s[n].kind = "end"
  BY DEF Wired
<1> HIDE DEF w, n
<1>6. \A i \in 1 .. n - 1 : Follows(s[i], s[i + 1])
  BY DEF Wired, n
<1>7. \A i, j \in 1 .. n : i < j => s[i].id <= s[j].id
  BY DEF Wired, n
<1>8. \A i \in 1 .. Len(w) : \/ i \in 1 .. n /\ w[i] = s[i] /\ w[i].id < k
                             \/ i > n /\ w[i].id = k
  <2>1. \A i \in 1 .. Len(w) : i \in 1 .. n \/ i = n + 1 \/ i = n + 2 \/ i = n + 3
    BY <1>3
  <2>2. \A i \in 1 .. n : w[i] = s[i] /\ w[i].id < k
    BY <1>3, <1>4 DEF n
  <2>3. w[n + 1].id = k /\ w[n + 2].id = k /\ w[n + 3].id = k
    BY <1>2, <1>3
  <2>4. QED
    BY <1>3, <2>1, <2>2, <2>3
<1>9. \A i, j \in 1 .. Len(w) : i < j => w[i].id <= w[j].id
  BY <1>3, <1>4, <1>7, <1>8
<1>10. \A i \in 1 .. Len(w) - 1 : Follows(w[i], w[i + 1])
  <2> SUFFICES ASSUME NEW i \in 1 .. n + 2 PROVE Follows(w[i], w[i + 1])
    BY <1>3
  <2>1. CASE i < n
    BY <1>3, <1>6, <2>1
  <2>2. CASE i = n
    <3>1. w[i] = s[n] /\ w[i + 1] = f[1] /\ s[n].kind = "end" /\ s[n].id < k
      BY <1>3, <1>4, <1>5, <2>2
    <3>2. QED
      BY <1>1, <1>2, <3>1 DEF Follows
  <2>3. CASE i = n + 1
    <3>1. w[i] = f[1] /\ w[i + 1] = f[2]
      BY <1>3, <2>3
    <3>2. QED
      BY <1>1, <1>2, <3>1 DEF Follows, Same
  <2>4. CASE i = n + 2
    <3>1. w[i] = f[2] /\ w[i + 1] = f[3]
      BY <1>3, <2>4
    <3>2. QED
      BY <1>1, <1>2, <3>1 DEF Follows, Same
  <2>5. QED
    BY <1>3, <2>1, <2>2, <2>3, <2>4
<1>11. w[Len(w)].kind = "end"
  BY <1>1, <1>3
<1>12. Wired(w)
  BY <1>9, <1>10, <1>11 DEF Wired
<1>13. QED
  BY <1>12 DEF w

-----------------------------------------------------------------------------
(* Tokens on their way *)

tokens == <<e_tx, out, heard, pending, e_rx, line, first, dataLen, e_return_value,
            nreq, noise, taken>>

LEMMA TokensStart == Init => Tokens
<1> SUFFICES ASSUME Init PROVE Tokens
  OBVIOUS
<1>1. ToSend = <<>> /\ Coming = <<>>
  BY DEF Init, ToSend, Coming
<1>2. Nothing \in Tok
  BY DEF Nothing, Token, Tok, Cmds
<1>3. EspTypeOK
  BY <1>2 DEF Init, EspTypeOK
<1>4. Upward /\ Downward
  BY <1>1, EmptyRange DEF Init, Upward, Downward, Below
<1>5. Once /\ Bodies
  BY <1>1, EmptyRange DEF Init, Once, Bodies, Below, TakenIds, Real, Nothing, Token
<1>6. QED
  BY <1>3, <1>4, <1>5 DEF Tokens

LEMMA TokensStay ==
    ASSUME Tokens, UNCHANGED tokens
    PROVE  Tokens'
<1>1. ToSend' = ToSend /\ Coming' = Coming /\ TakenIds' = TakenIds
  BY DEF tokens, ToSend, Coming, TakenIds
<1>2. EspTypeOK'
  BY DEF Tokens, tokens, EspTypeOK
<1>3. Upward' /\ Downward' /\ Once' /\ Bodies'
  BY <1>1 DEF Tokens, tokens, Upward, Downward, Once, Bodies, Real
<1>4. QED
  BY <1>2, <1>3 DEF Tokens

LEMMA CommandIs ==
    ASSUME NEW o \in Sends \cup Waits
    PROVE  Command(o) \in Cmds /\ (o # "request" => AnswerTo(Command(o)) = Command(o))
  BY DEF Command, Cmds, AnswerTo, Sends, Waits

LEMMA AnswerIs ==
    ASSUME NEW c \in Cmds
    PROVE  AnswerTo(c) \in Cmds /\ AnswerTo(AnswerTo(c)) = AnswerTo(c)
  BY DEF Cmds, AnswerTo

LEMMA TokenType ==
    ASSUME Tokens
    PROVE  /\ EspTypeOK
           /\ ToSend \in Seq(Tok) /\ Coming \in Seq(Tok)
           /\ Ids(ToSend) \subseteq Nat /\ Ids(Coming) \subseteq Nat /\ Ids(pending) \subseteq Nat
<1>1. ToSend \in Seq(Tok) /\ Coming \in Seq(Tok) /\ pending \in Seq(Tok)
  <2>1. e_tx \in Seq(Tok) /\ out \in Seq(Tok) /\ e_rx \in Seq(Tok) /\ line \in Seq(Tok)
          /\ pending \in Seq(Tok)
    BY DEF Tokens, EspTypeOK
  <2>2. QED
    BY <2>1, Places DEF ToSend, Coming
<1>2. ASSUME NEW s \in Seq(Tok) PROVE Ids(s) \subseteq Nat
  BY RangeIs, TokIs DEF Ids
<1>3. QED
  BY <1>1, <1>2 DEF Tokens

\* A request goes behind all others and is younger than all there is.
LEMMA RequestTokens ==
    ASSUME Tokens, out = <<>>, NEW o \in Sends,
           nreq' = nreq + 1, out' = Frame(Command(o), nreq + 1, 0),
           UNCHANGED <<e_tx, heard, pending, e_rx, line, first, dataLen, e_return_value,
                       noise, taken>>
    PROVE  Tokens'
<1>1. PICK k \in Nat : k = nreq + 1
  BY DEF Tokens, EspTypeOK
<1>2. PICK f : f = Frame(Command(o), k, 0)
  OBVIOUS
<1>3. Command(o) \in Cmds
  BY CommandIs
<1>4. f \in Seq(Tok) /\ Ids(f) = {k} /\ f # <<>> /\ f[1].kind = "start" /\ Head(f) = f[1]
  BY <1>2, <1>3, FrameIs
<1>5. PICK s \in Seq(Tok) : s = ToSend /\ s = e_tx
  <2>1. e_tx \in Seq(Tok)
    BY DEF Tokens, EspTypeOK
  <2>2. ToSend = e_tx
    BY <2>1 DEF ToSend
  <2>3. QED
    BY <2>1, <2>2
<1>6. ToSend' = s \o f /\ Coming' = Coming /\ TakenIds' = TakenIds
  BY <1>1, <1>2, <1>5 DEF ToSend, Coming, TakenIds
<1>7. /\ Ids(s \o f) = Ids(s) \cup {k} /\ s \o f # <<>>
      /\ s = <<>> => (s \o f)[1] = f[1]
      /\ s # <<>> => (s \o f)[1] = s[1]
  <2>1. s # <<>> => Head(s) = s[1]
    BY <1>5
  <2>2. QED
    BY <1>4, <2>1, Joined
<1>8. nreq \in Nat /\ nreq < k /\ Ids(s) \subseteq 1 .. nreq /\ Ids(pending) \subseteq 1 .. nreq
  BY <1>1, <1>5 DEF Tokens, EspTypeOK, Upward
<1>9. Wired(s \o f)
  <2>1. Below(Ids(s), {k}) /\ Wired(s)
    BY <1>1, <1>5, <1>8 DEF Below, Tokens, Upward
  <2>2. 0 \in {0, 1}
    OBVIOUS
  <2>3. QED
    BY <1>2, <1>3, <2>1, <2>2, FrameAppended
<1>10. EspTypeOK'
  BY <1>1, <1>2, <1>4 DEF Tokens, EspTypeOK
<1>11. \A n \in 1 .. nreq : n \in 1 .. k /\ n < k
  BY <1>1, <1>8
<1>12. k \in 1 .. k /\ nreq' = k
  BY <1>1, <1>8
<1>13. Upward'
  <2>1. heard # <<>> => s # <<>>
    BY <1>5 DEF Tokens, Upward
  <2>2. /\ heard = <<>> => (s \o f)[1].kind = "start"
        /\ heard # <<>> => /\ heard[Len(heard)].kind # "end"
                           /\ Follows(heard[Len(heard)], (s \o f)[1])
                           /\ \A x \in Range(heard) : x.id = (s \o f)[1].id
    BY <1>4, <1>5, <1>7, <2>1 DEF Tokens, Upward
  <2>3. Below(Ids(pending), Ids(s \o f))
    BY <1>5, <1>7, <1>8, <1>11 DEF Below, Tokens, Upward
  <2>4. Ids(s \o f) \subseteq 1 .. k /\ Ids(pending) \subseteq 1 .. k
    BY <1>7, <1>8, <1>11, <1>12
  <2>5. \A i, j \in 1 .. Len(pending) : i < j => pending[i].id < pending[j].id
    BY DEF Tokens, Upward
  <2>6. QED
    BY <1>6, <1>7, <1>9, <1>12, <2>2, <2>3, <2>4, <2>5 DEF Upward
<1>14. Downward'
  <2> SUFFICES ASSUME noise = 0 PROVE Downward'
    BY DEF Downward
  <2>1. Ids(Coming) \subseteq 1 .. k /\ Below(Ids(Coming), Ids(s \o f))
    BY <1>5, <1>7, <1>11 DEF Below, Tokens, Downward
  <2>2. QED
    BY <1>6, <1>12, <2>1 DEF Tokens, Downward
<1>15. Once'
  <2> SUFFICES ASSUME noise = 0 PROVE Once'
    BY DEF Once
  <2>1. TakenIds \subseteq 1 .. k /\ Below(TakenIds, Ids(s \o f))
    BY <1>5, <1>7, <1>11 DEF Below, Tokens, Once
  <2>2. QED
    BY <1>6, <1>12, <2>1 DEF Tokens, Once
<1>16. Bodies'
  BY <1>11, <1>12 DEF Tokens, Bodies, Real
<1>17. QED
  BY <1>10, <1>13, <1>14, <1>15, <1>16 DEF Tokens

\* esp_uart_write moves the request on.
LEMMA WriteTokens ==
    ASSUME Tokens, out # <<>>, e_tx' = Append(e_tx, Head(out)), out' = Tail(out),
           UNCHANGED <<heard, pending, e_rx, line, first, dataLen, e_return_value,
                       nreq, noise, taken>>
    PROVE  Tokens'
<1>1. e_tx \in Seq(Tok) /\ out \in Seq(Tok)
  BY DEF Tokens, EspTypeOK
<1>2. e_tx' \in Seq(Tok) /\ out' \in Seq(Tok) /\ ToSend' = ToSend
  BY <1>1, MovedOn, HeadTail DEF ToSend
<1>3. EspTypeOK'
  BY <1>2 DEF Tokens, EspTypeOK
<1>4. Coming' = Coming /\ TakenIds' = TakenIds
  BY DEF Coming, TakenIds
<1>5. Upward' /\ Downward' /\ Once' /\ Bodies'
  BY <1>2, <1>4 DEF Tokens, Upward, Downward, Once, Bodies, Real
<1>6. QED
  BY <1>3, <1>5 DEF Tokens

\* On the way up nothing gets in front of what is younger.
LEMMA OrderKept ==
    ASSUME Tokens, Coming' = Coming, Ids(pending') \subseteq Ids(pending) \cup Ids(ToSend),
           Ids(ToSend') \subseteq Ids(ToSend), UNCHANGED <<first, dataLen, nreq, noise, taken>>
    PROVE  Downward' /\ Once'
<1>1. TakenIds' = TakenIds
  BY DEF TakenIds
<1>2. Downward'
  <2> SUFFICES ASSUME noise = 0 PROVE Downward'
    BY DEF Downward
  <2>1. Below(Ids(Coming), Ids(pending')) /\ Below(Ids(Coming), Ids(ToSend'))
    BY DEF Below, Tokens, Downward
  <2>2. QED
    BY <2>1 DEF Tokens, Downward
<1>3. Once'
  <2> SUFFICES ASSUME noise = 0 PROVE Once'
    BY DEF Once
  <2>1. Below(TakenIds, Ids(pending')) /\ Below(TakenIds, Ids(ToSend'))
    BY DEF Below, Tokens, Once
  <2>2. QED
    BY <1>1, <2>1 DEF Tokens, Once
<1>4. QED
  BY <1>2, <1>3

\* The request the ESP8266 answers next is older than the others.
LEMMA PendingTail ==
    ASSUME Tokens, pending # <<>>
    PROVE  /\ Tail(pending) \in Seq(Tok) /\ Head(pending) \in Tok
           /\ Head(pending).id \in 1 .. nreq /\ Head(pending).id \in Ids(pending)
           /\ Range(pending) = {Head(pending)} \cup Range(Tail(pending))
           /\ Ids(Tail(pending)) \subseteq Ids(pending)
           /\ Below({Head(pending).id}, Ids(Tail(pending)))
           /\ Below({Head(pending).id}, Ids(ToSend))
           /\ \A i, j \in 1 .. Len(Tail(pending)) :
                i < j => Tail(pending)[i].id < Tail(pending)[j].id
<1>1. PICK s \in Seq(Tok) : s = pending
  BY DEF Tokens, EspTypeOK
<1>2. PICK t \in Seq(Tok) : t = Tail(s)
  BY <1>1, HeadTail
<1>3. /\ Head(s) \in Tok /\ Head(s) = s[1]
      /\ Range(s) = {Head(s)} \cup Range(t)
      /\ Ids(s) = {Head(s).id} \cup Ids(t)
  BY <1>1, <1>2, HeadTail
<1>4. Len(s) \in Nat /\ Len(t) = Len(s) - 1 /\ \A i \in 1 .. Len(t) : t[i] = s[i + 1]
  BY <1>1, <1>2
<1>5. \A i, j \in 1 .. Len(s) : i < j => s[i].id < s[j].id
  BY <1>1 DEF Tokens, Upward
<1>6. \A i, j \in 1 .. Len(t) : i < j => t[i].id < t[j].id
  <2>1. \A i \in 1 .. Len(t) : i + 1 \in 1 .. Len(s) /\ t[i] = s[i + 1]
    BY <1>4
  <2>2. \A i, j \in 1 .. Len(t) : i < j => i + 1 < j + 1
    BY <1>4
  <2>3. QED
    BY <1>5, <2>1, <2>2
<1>7. \A i \in 1 .. Len(t) : s[1].id < t[i].id
  BY <1>4, <1>5
<1>8. Below({s[1].id}, Ids(t))
  <2>1. Range(t) = {t[i] : i \in 1 .. Len(t)}
    BY RangeIs
  <2>2. QED
    BY <1>7, <2>1 DEF Below, Ids
<1>9. Ids(s) \subseteq 1 .. nreq /\ Below(Ids(s), Ids(ToSend))
  BY <1>1 DEF Tokens, Upward
<1>10. QED
  BY <1>1, <1>2, <1>3, <1>6, <1>8, <1>9 DEF Below

\* espduino_uart_tx hands the next token to the ESP8266.
LEMMA UartTxTokens ==
    ASSUME Tokens, UartTx
    PROVE  /\ Tokens'
           /\ \A x \in Range(heard') \cup Range(pending') :
                x \in Range(e_tx) \cup Range(heard) \cup Range(pending)
           /\ Range(e_tx') \subseteq Range(e_tx)
<1>1. PICK s \in Seq(Tok) : s = ToSend
  BY TokenType
<1>3. /\ e_tx \in Seq(Tok) /\ out \in Seq(Tok) /\ heard \in Seq(Tok) /\ pending \in Seq(Tok)
      /\ e_tx # <<>> /\ nreq \in Nat
  BY DEF Tokens, EspTypeOK, UartTx
<1>4. PICK x \in Tok : x = Head(e_tx)
  BY <1>3, HeadTail
<1>0. s # <<>> /\ s[1] = x /\ Tail(s) = Tail(e_tx) \o out
  BY <1>1, <1>3, <1>4, Joined DEF ToSend
<1>2. PICK t \in Seq(Tok) : t = Tail(s)
  BY <1>0, HeadTail
<1>5. Head(s) = x /\ s[1] = x /\ s # <<>> /\ ToSend' = t
  <2>1. s # <<>> /\ s[1] = x /\ Tail(s) = Tail(e_tx) \o out
    BY <1>0
  <2>2. ToSend' = Tail(e_tx) \o out
    BY DEF UartTx, ToSend, task
  <2>3. QED
    BY <1>2, <2>1, <2>2, HeadTail
<1>6. /\ Wired(t) /\ x.kind \in {"start", "body", "end"}
      /\ t = <<>> => x.kind = "end"
      /\ t # <<>> => Follows(x, t[1])
      /\ x.kind = "end" => Below({x.id}, Ids(t))
      /\ Ids(s) = {x.id} \cup Ids(t)
  <2>1. Wired(s)
    BY <1>1 DEF Tokens, Upward
  <2>2. QED
    BY <1>2, <1>5, <2>1, WiredTail, HeadTail
<1>7. /\ e_tx' \in Seq(Tok) /\ Range(e_tx') \subseteq Range(e_tx) /\ x \in Range(e_tx)
  BY <1>3, <1>4, HeadTail DEF UartTx
<1>8. /\ heard = <<>> => x.kind = "start"
      /\ heard # <<>> => /\ heard[Len(heard)].kind # "end"
                         /\ Follows(heard[Len(heard)], x)
                         /\ \A y \in Range(heard) : y.id = x.id
  BY <1>1, <1>5 DEF Tokens, Upward
<1>9. Coming' = Coming /\ UNCHANGED <<e_rx, line, first, dataLen, out, nreq, noise, taken, e_return_value>>
  BY DEF UartTx, Coming, task, history
<1>10. /\ \A i, j \in 1 .. Len(pending) : i < j => pending[i].id < pending[j].id
       /\ Below(Ids(pending), Ids(s)) /\ Ids(pending) \subseteq 1 .. nreq
       /\ Ids(s) \subseteq 1 .. nreq
  BY <1>1 DEF Tokens, Upward
<1> DEFINE Handed ==
      /\ heard' \in Seq(Tok) /\ pending' \in Seq(Tok)
      /\ heard' = <<>> /\ t # <<>> => t[1].kind = "start"
      /\ heard' # <<>> => /\ t # <<>>
                          /\ heard'[Len(heard')].kind # "end"
                          /\ Follows(heard'[Len(heard')], t[1])
                          /\ \A y \in Range(heard') : y.id = t[1].id
      /\ \A i, j \in 1 .. Len(pending') : i < j => pending'[i].id < pending'[j].id
      /\ Below(Ids(pending'), Ids(t)) /\ Ids(pending') \subseteq Ids(pending) \cup Ids(s)
      /\ \A y \in Range(heard') \cup Range(pending') :
           y = x \/ y \in Range(heard) \/ y \in Range(pending)
<1>11. ASSUME x.kind = "start" PROVE Handed
  <2>1. heard' = <<x>> /\ pending' = pending
    BY <1>4, <1>11 DEF UartTx
  <2>2. t # <<>> /\ Follows(x, t[1]) /\ x.id = t[1].id
    BY <1>6, <1>11 DEF Follows, Same
  <2>3. PICK h \in Seq(Tok) : h = <<x>> /\ Len(h) = 1 /\ h[1] = x /\ h # <<>>
    <3>1. <<x>> \in Seq(Tok)
      BY <1>4
    <3>2. QED
      BY <3>1
  <2>4. Range(h) = {x}
    BY <2>3 DEF Range
  <2>5. Below(Ids(pending), Ids(t))
    BY <1>6, <1>10 DEF Below
  <2>6. Handed
    BY <1>3, <1>10, <1>11, <2>1, <2>2, <2>3, <2>4, <2>5
  <2>7. QED
    BY <2>6
<1>12. ASSUME x.kind = "body" PROVE Handed
  <2>1. heard' = Append(heard, x) /\ pending' = pending
    BY <1>4, <1>12 DEF UartTx
  <2>2. t # <<>> /\ Follows(x, t[1]) /\ x.id = t[1].id
    BY <1>6, <1>12 DEF Follows, Same
  <2>3. /\ heard' \in Seq(Tok) /\ Range(heard') = Range(heard) \cup {x}
        /\ heard' # <<>> /\ heard'[Len(heard')] = x
    BY <1>3, <1>4, <2>1, Appended
  <2>4. Below(Ids(pending), Ids(t))
    BY <1>6, <1>10 DEF Below
  <2>5. heard # <<>>
    BY <1>8, <1>12
  <2>6. Handed
    BY <1>3, <1>8, <1>10, <1>12, <2>1, <2>2, <2>3, <2>4, <2>5
  <2>7. QED
    BY <2>6
<1>13. ASSUME x.kind = "end" PROVE Handed
  <2>1. heard # <<>>
    BY <1>8, <1>13
  <2>2. PICK q \in Tok : q = Last(heard) /\ q \in Range(heard) /\ q.id = x.id
    <3>1. Len(heard) \in 1 .. Len(heard)
      BY <1>3, <2>1
    <3>2. heard[Len(heard)] \in Range(heard) /\ heard[Len(heard)] \in Tok
      BY <1>3, <3>1, RangeIs
    <3>3. QED
      BY <1>8, <2>1, <3>2 DEF Last
  <2>3. heard' = <<>> /\ (pending' = <<>> \/ pending' = Append(pending, q))
    BY <1>4, <1>13, <2>2 DEF UartTx
  <2>4. t # <<>> => t[1].kind = "start"
    BY <1>6, <1>13 DEF Follows
  <2>5. heard' \in Seq(Tok) /\ Range(heard') = {}
    BY <2>3, EmptyRange
  <2>6. Below(Ids(pending), Ids(t)) /\ Below({x.id}, Ids(t)) /\ x.id \in Ids(s)
    BY <1>6, <1>10, <1>13 DEF Below
  <2>7. CASE pending' = <<>>
    <3>1. Len(pending') = 0 /\ Range(pending') = {} /\ Ids(pending') = {} /\ pending' \in Seq(Tok)
      BY <2>7, EmptyRange
    <3>2. Handed
      BY <2>3, <2>4, <2>5, <3>1 DEF Below
    <3>3. QED
      BY <3>2
  <2>8. CASE pending' = Append(pending, q)
    <3>1. /\ pending' \in Seq(Tok) /\ Range(pending') = Range(pending) \cup {q}
          /\ Ids(pending') = Ids(pending) \cup {x.id}
      BY <1>3, <2>2, <2>8, Appended
    <3>2. \A i \in 1 .. Len(pending) : pending[i].id < x.id
      <4>1. \A i \in 1 .. Len(pending) : pending[i] \in Range(pending)
        BY <1>3, RangeIs
      <4>2. QED
        BY <1>10, <2>6, <4>1 DEF Below, Ids
    <3>3. /\ Len(pending') = Len(pending) + 1 /\ Len(pending) \in Nat
          /\ \A i \in 1 .. Len(pending) : pending'[i] = pending[i]
          /\ pending'[Len(pending) + 1] = q
      BY <1>3, <2>8
    <3>4. \A i, j \in 1 .. Len(pending') : i < j => pending'[i].id < pending'[j].id
      <4>1. \A i, j \in 1 .. Len(pending') :
              i < j => i \in 1 .. Len(pending) /\ (j \in 1 .. Len(pending) \/ j = Len(pending) + 1)
        BY <3>3
      <4>2. QED
        BY <1>10, <2>2, <3>2, <3>3, <4>1
    <3>5. Below(Ids(pending'), Ids(t)) /\ Ids(pending') \subseteq Ids(pending) \cup Ids(s)
      BY <2>6, <3>1 DEF Below
    <3>6. Handed
      BY <2>2, <2>3, <2>4, <2>5, <3>1, <3>4, <3>5
    <3>7. QED
      BY <3>6
  <2>9. QED
    BY <2>3, <2>7, <2>8
<1>14. Handed
  BY <1>6, <1>11, <1>12, <1>13
<1>15. EspTypeOK'
  BY <1>7, <1>9, <1>14 DEF Tokens, EspTypeOK
<1>16. Upward'
  <2>1. Ids(pending') \subseteq 1 .. nreq /\ Ids(t) \subseteq 1 .. nreq
    BY <1>6, <1>10, <1>14
  <2>2. QED
    BY <1>5, <1>6, <1>9, <1>14, <2>1 DEF Upward
<1>17. Downward' /\ Once'
  <2>1. Ids(ToSend') \subseteq Ids(ToSend) /\ Ids(pending') \subseteq Ids(pending) \cup Ids(ToSend)
    BY <1>1, <1>5, <1>6, <1>14
  <2>2. QED
    BY <1>9, <2>1, OrderKept
<1>18. Bodies'
  BY <1>9 DEF Tokens, Bodies, Real
<1>19. QED
  BY <1>7, <1>14, <1>15, <1>16, <1>17, <1>18 DEF Tokens

\* The ESP8266 drops a request.
LEMMA IgnoreTokens ==
    ASSUME Tokens, PeerIgnores
    PROVE  Tokens' /\ Range(pending') \subseteq Range(pending)
<1>1. /\ pending # <<>> /\ pending' = Tail(pending) /\ ToSend' = ToSend /\ Coming' = Coming
      /\ UNCHANGED <<e_tx, out, heard, e_rx, line, first, dataLen, e_return_value, nreq,
                     noise, taken>>
  BY DEF PeerIgnores, library, task, history, ToSend, Coming
<1>2. EspTypeOK' /\ Range(pending') \subseteq Range(pending)
  BY <1>1, PendingTail DEF Tokens, EspTypeOK
<1>3. Ids(pending') \subseteq Ids(pending)
  BY <1>1, PendingTail
<1>4. Below(Ids(pending'), Ids(ToSend))
  BY <1>3 DEF Below, Tokens, Upward
<1>5. \A i, j \in 1 .. Len(pending') : i < j => pending'[i].id < pending'[j].id
  BY <1>1, PendingTail
<1>6. Upward'
  BY <1>1, <1>3, <1>4, <1>5 DEF Tokens, Upward
<1>7. Downward' /\ Once'
  BY <1>1, <1>3, OrderKept
<1>8. Bodies'
  BY <1>1 DEF Tokens, Bodies, Real
<1>9. QED
  BY <1>2, <1>6, <1>7, <1>8 DEF Tokens

\* It answers the oldest request; the answer is younger than those before it.
LEMMA AnswerTokens ==
    ASSUME Tokens, NEW val \in {0, 1}, PeerAnswers(val)
    PROVE  /\ Tokens' /\ Range(pending') \subseteq Range(pending)
           /\ \A x \in Range(line') : \E y \in Range(pending) :
                x.id = y.id /\ AnswerTo(x.cmd) = AnswerTo(y.cmd)
<1>1. /\ pending # <<>> /\ pending' = Tail(pending) /\ ToSend' = ToSend /\ line = <<>>
      /\ line' = Frame(AnswerTo(Head(pending).cmd), Head(pending).id, val)
      /\ UNCHANGED <<e_tx, out, heard, e_rx, first, dataLen, e_return_value, nreq,
                     noise, taken>>
  BY DEF PeerAnswers, library, task, history, ToSend
<1>2. PICK y \in Tok : y = Head(pending) /\ y \in Range(pending)
  BY <1>1, PendingTail
<1>3. y.id \in Nat /\ y.cmd \in Cmds /\ AnswerTo(y.cmd) \in Cmds
        /\ AnswerTo(AnswerTo(y.cmd)) = AnswerTo(y.cmd)
  BY TokIs, AnswerIs
<1>4. PICK f \in Seq(Tok) : f = Frame(AnswerTo(y.cmd), y.id, val) /\ f = line'
  BY <1>1, <1>2, <1>3, FrameIs
<1>5. /\ Range(f) = {f[1], f[2], f[3]} /\ Ids(f) = {y.id} /\ f # <<>>
      /\ f[1].kind = "start"
      /\ \A x \in Range(f) : x.id = y.id /\ x.cmd = AnswerTo(y.cmd)
  <2>1. /\ Range(f) = {f[1], f[2], f[3]} /\ Ids(f) = {y.id} /\ f # <<>>
        /\ f[1].kind = "start"
        /\ \A i \in 1 .. 3 : f[i].cmd = AnswerTo(y.cmd) /\ f[i].id = y.id
    <3>1. PICK c \in Cmds, k \in Nat : c = AnswerTo(y.cmd) /\ k = y.id
      BY <1>3
    <3>2. f = Frame(c, k, val)
      BY <1>4, <3>1
    <3>3. /\ Range(f) = {f[1], f[2], f[3]} /\ Ids(f) = {k} /\ f # <<>>
          /\ f[1].kind = "start"
          /\ \A i \in 1 .. 3 : f[i].cmd = c /\ f[i].id = k
      BY <3>2, FrameIs
    <3>4. QED
      BY <3>1, <3>3
  <2>2. 1 \in 1 .. 3 /\ 2 \in 1 .. 3 /\ 3 \in 1 .. 3
    OBVIOUS
  <2>3. QED
    BY <2>1, <2>2
<1>6. PICK s \in Seq(Tok) : s = Coming /\ s = e_rx
  <2>1. e_rx \in Seq(Tok)
    BY DEF Tokens, EspTypeOK
  <2>2. Coming = e_rx
    BY <1>1, <2>1 DEF Coming
  <2>3. QED
    BY <2>1, <2>2
<1>7. Coming' = s \o f
  BY <1>1, <1>4, <1>6 DEF Coming
<1>8. /\ Ids(s \o f) = Ids(s) \cup {y.id}
      /\ s = <<>> => (s \o f)[1] = f[1]
      /\ s # <<>> => (s \o f)[1] = s[1]
  <2>1. s # <<>> => Head(s) = s[1]
    BY <1>6
  <2>2. QED
    BY <1>5, <2>1, Joined
<1>9. EspTypeOK' /\ Range(pending') \subseteq Range(pending)
  BY <1>1, <1>4, PendingTail DEF Tokens, EspTypeOK
<1>10. /\ Ids(pending') \subseteq Ids(pending) /\ y.id \in 1 .. nreq /\ y.id \in Ids(pending)
       /\ Below({y.id}, Ids(pending')) /\ Below({y.id}, Ids(ToSend))
       /\ \A i, j \in 1 .. Len(pending') : i < j => pending'[i].id < pending'[j].id
  BY <1>1, <1>2, PendingTail
<1>11. Upward'
  <2>1. Below(Ids(pending'), Ids(ToSend))
    BY <1>10 DEF Below, Tokens, Upward
  <2>2. QED
    BY <1>1, <1>10, <2>1 DEF Tokens, Upward
<1>12. Downward'
  <2> SUFFICES ASSUME noise = 0 PROVE Downward'
    BY <1>1 DEF Downward
  <2>1. Wired(s \o f)
    <3>1. Wired(s) /\ Below(Ids(s), {y.id})
      BY <1>6, <1>10 DEF Tokens, Downward, Below
    <3>2. QED
      BY <1>3, <1>4, <3>1, FrameAppended
  <2>2. /\ (s \o f)[1].kind = "body" => dataLen = 0
        /\ (s \o f)[1].kind = "end" => first.kind = "body" /\ Same(first, (s \o f)[1])
    BY <1>5, <1>6, <1>8 DEF Tokens, Downward
  <2>3. /\ Ids(s \o f) \subseteq 1 .. nreq
        /\ Below(Ids(s \o f), Ids(pending')) /\ Below(Ids(s \o f), Ids(ToSend))
    BY <1>6, <1>8, <1>10 DEF Tokens, Downward, Below
  <2>4. QED
    BY <1>1, <1>7, <2>1, <2>2, <2>3 DEF Downward
<1>13. Once'
  <2> SUFFICES ASSUME noise = 0 PROVE Once'
    BY <1>1 DEF Once
  <2>1. TakenIds' = TakenIds
    BY <1>1 DEF TakenIds
  <2>2. Below(TakenIds, Ids(s \o f)) /\ Below(TakenIds, Ids(pending'))
    BY <1>6, <1>8, <1>10 DEF Tokens, Once, Below
  <2>3. QED
    BY <1>1, <1>7, <2>1, <2>2 DEF Tokens, Once
<1>14. Bodies'
  <2>1. \A x \in Range(f) : x.id \in 1 .. nreq
    BY <1>5, <1>10
  <2>2. QED
    BY <1>1, <1>4, <2>1 DEF Tokens, Bodies, Real
<1>15. \A x \in Range(line') : x.id = y.id /\ AnswerTo(x.cmd) = AnswerTo(y.cmd)
  BY <1>3, <1>4, <1>5
<1>16. QED
  BY <1>2, <1>9, <1>11, <1>12, <1>13, <1>14, <1>15 DEF Tokens

\* espduino_uart_rx moves an answer on, or counts it as noise.
LEMMA UartRxTokens ==
    ASSUME Tokens, UartRx
    PROVE  /\ Tokens' /\ Range(line') \subseteq Range(line)
           /\ Range(e_rx') \subseteq Range(e_rx) \cup Range(line)
<1>1. /\ line # <<>> /\ line' = Tail(line) /\ ToSend' = ToSend
      /\ UNCHANGED <<e_tx, out, heard, pending, first, dataLen, e_return_value, nreq, taken>>
      /\ \/ e_rx' = Append(e_rx, Head(line)) /\ noise' = noise
         \/ e_rx' = e_rx /\ noise' = noise + 1
  BY DEF UartRx, task, ToSend
<1>2. line \in Seq(Tok) /\ e_rx \in Seq(Tok) /\ noise \in Nat
  BY DEF Tokens, EspTypeOK
<1>3. /\ line' \in Seq(Tok) /\ Head(line) \in Tok /\ Range(line) = {Head(line)} \cup Range(line')
  BY <1>1, <1>2, HeadTail
<1>4. e_rx' \in Seq(Tok) /\ Range(e_rx') \subseteq Range(e_rx) \cup {Head(line)}
  BY <1>1, <1>2, <1>3, Appended
<1>5. noise' \in Nat /\ (noise' = 0 => noise = 0 /\ Coming' = Coming)
  <2>1. CASE e_rx' = Append(e_rx, Head(line)) /\ noise' = noise
    BY <1>1, <1>2, <2>1, MovedOn DEF Coming
  <2>2. CASE noise' = noise + 1
    BY <1>2, <2>2
  <2>3. QED
    BY <1>1, <2>1, <2>2
<1>6. EspTypeOK'
  BY <1>1, <1>3, <1>4, <1>5 DEF Tokens, EspTypeOK
<1>7. Upward'
  BY <1>1 DEF Tokens, Upward
<1>8. Downward' /\ Once'
  <2> SUFFICES ASSUME noise' = 0 PROVE Downward' /\ Once'
    BY DEF Downward, Once
  <2>1. noise = 0 /\ Coming' = Coming /\ TakenIds' = TakenIds
    BY <1>1, <1>5 DEF TakenIds
  <2>2. QED
    BY <1>1, <2>1 DEF Tokens, Downward, Once
<1>9. Bodies'
  BY <1>1, <1>3, <1>4 DEF Tokens, Bodies, Real
<1>10. QED
  BY <1>3, <1>4, <1>6, <1>7, <1>8, <1>9 DEF Tokens

\* What the line damages is no body any more.
LEMMA NoiseTokens ==
    ASSUME Tokens, Noise
    PROVE  Tokens' /\ noise' # 0
<1>1. /\ line # <<>> /\ noise' = noise + 1 /\ ToSend' = ToSend
      /\ UNCHANGED <<e_tx, out, heard, pending, e_rx, first, dataLen, e_return_value, nreq, taken>>
      /\ line' = Tail(line) \/ line' = <<Nothing>> \o Tail(line)
  BY DEF Noise, library, task, ToSend
<1>2. line \in Seq(Tok) /\ noise \in Nat
  BY DEF Tokens, EspTypeOK
<1>3. PICK t \in Seq(Tok) : t = Tail(line) /\ Range(t) \subseteq Range(line)
  BY <1>1, <1>2, HeadTail
<1>4. Nothing \in Tok /\ Nothing.kind = "bad"
  BY DEF Nothing, Token, Tok, Cmds
<1>5. PICK b \in Seq(Tok) : b = <<Nothing>> /\ Range(b) = {Nothing}
  <2>1. <<Nothing>> \in Seq(Tok) /\ Range(<<Nothing>>) = {Nothing}
    BY <1>4 DEF Range
  <2>2. QED
    BY <2>1
<1>6. line' \in Seq(Tok) /\ Range(line') \subseteq Range(line) \cup {Nothing}
  <2>1. CASE line' = Tail(line)
    BY <1>3, <2>1
  <2>2. CASE line' = <<Nothing>> \o Tail(line)
    <3>1. line' = b \o t
      BY <1>3, <1>5, <2>2
    <3>2. b \o t \in Seq(Tok) /\ Range(b \o t) = {Nothing} \cup Range(t)
      <4>1. Range(b) = {Nothing}
        BY <1>5
      <4>2. QED
        BY <4>1, Joined
    <3>3. QED
      BY <1>3, <3>1, <3>2
  <2>3. QED
    BY <1>1, <2>1, <2>2
<1>7. noise' \in Nat /\ noise' # 0
  BY <1>1, <1>2
<1>8. EspTypeOK'
  BY <1>1, <1>6, <1>7 DEF Tokens, EspTypeOK
<1>9. Upward' /\ Downward' /\ Once'
  BY <1>1, <1>7 DEF Tokens, Upward, Downward, Once
<1>10. Bodies'
  BY <1>1, <1>4, <1>6 DEF Tokens, Bodies, Real
<1>11. QED
  BY <1>7, <1>8, <1>9, <1>10 DEF Tokens

\* The parser takes the next token.
LEMMA TakeTokens ==
    ASSUME Tokens, e_rx # <<>>, e_rx' = Tail(e_rx),
           UNCHANGED <<e_tx, out, heard, pending, line, nreq, noise>>,
           first' \in {first, Head(e_rx)}, e_return_value' \in {e_return_value, first},
           \/ Head(e_rx).kind = "start" /\ dataLen' = 0 /\ taken' = taken
           \/ /\ Head(e_rx).kind \in {"body", "bad"} /\ taken' = taken
              /\ dataLen = 0 => first' = Head(e_rx)
           \/ /\ Head(e_rx).kind = "end"
              /\ first' = first
              /\ \/ taken' = taken
                 \/ first.kind = "body" /\ taken' = Append(taken, <<first.cmd, first.id>>)
    PROVE  Tokens' /\ Range(e_rx') \subseteq Range(e_rx)
<1>1. PICK s \in Seq(Tok) : s = Coming
  BY TokenType
<1>2. e_rx \in Seq(Tok) /\ line \in Seq(Tok) /\ first \in Tok /\ e_return_value \in Tok
        /\ taken \in Seq(Cmds \X Nat) /\ nreq \in Nat
  BY DEF Tokens, EspTypeOK
<1>3. PICK x \in Tok : x = Head(e_rx) /\ x \in Range(e_rx)
  BY <1>2, HeadTail
<1>4. s # <<>> /\ s[1] = x /\ Tail(s) = Tail(e_rx) \o line
  BY <1>1, <1>2, <1>3, Joined DEF Coming
<1>5. PICK t \in Seq(Tok) : t = Tail(s) /\ Coming' = t /\ Head(s) = x /\ ToSend' = ToSend
  BY <1>4, HeadTail DEF Coming, ToSend
<1>6. e_rx' \in Seq(Tok) /\ Range(e_rx') \subseteq Range(e_rx)
  BY <1>2, HeadTail
<1>7. first' \in Tok /\ e_return_value' \in Tok
  BY <1>2, <1>3
<1>8. first.id \in Nat /\ first.cmd \in Cmds
  BY <1>2, TokIs
<1>9. taken' \in Seq(Cmds \X Nat)
  <2>1. PICK e \in Cmds \X Nat : e = <<first.cmd, first.id>>
    BY <1>8
  <2>2. taken' = taken \/ taken' = Append(taken, e)
    BY <2>1
  <2>3. taken \in Seq(Cmds \X Nat)
    BY <1>2
  <2>4. QED
    BY <2>2, <2>3, AppendType
<1>10. EspTypeOK'
  BY <1>6, <1>7, <1>9 DEF Tokens, EspTypeOK
<1>11. Upward'
  BY <1>5 DEF Tokens, Upward
<1>12. Ids(s) = {x.id} \cup Ids(t)
  BY <1>4, <1>5, HeadTail
<1>13. ASSUME noise = 0
       PROVE  /\ Wired(t) /\ x.kind \in {"start", "body", "end"}
              /\ t = <<>> => x.kind = "end"
              /\ t # <<>> => Follows(x, t[1])
              /\ x.kind = "end" => Below({x.id}, Ids(t))
              /\ x.kind = "body" => dataLen = 0
              /\ x.kind = "end" => first.kind = "body" /\ Same(first, x)
              /\ Ids(s) \subseteq 1 .. nreq
              /\ Below(Ids(s), Ids(pending)) /\ Below(Ids(s), Ids(ToSend))
  <2>1. Wired(s)
    BY <1>1, <1>13 DEF Tokens, Downward
  <2>2. /\ Wired(t) /\ x.kind \in {"start", "body", "end"}
        /\ t = <<>> => x.kind = "end"
        /\ t # <<>> => Follows(x, t[1])
        /\ x.kind = "end" => Below({x.id}, Ids(t))
    BY <1>4, <1>5, <2>1, WiredTail
  <2>3. QED
    BY <1>1, <1>4, <1>13, <2>2 DEF Tokens, Downward
<1>14. Downward'
  <2> SUFFICES ASSUME noise = 0 PROVE Downward'
    BY DEF Downward
  <2>1. /\ t # <<>> /\ t[1].kind = "body" => dataLen' = 0
        /\ t # <<>> /\ t[1].kind = "end" => first'.kind = "body" /\ Same(first', t[1])
    <3>1. CASE x.kind = "start"
      BY <1>3, <1>13, <3>1 DEF Follows
    <3>2. CASE x.kind = "body"
      BY <1>3, <1>13, <3>2 DEF Follows
    <3>3. CASE x.kind = "end"
      BY <1>13, <3>3 DEF Follows
    <3>4. QED
      BY <1>13, <3>1, <3>2, <3>3
  <2>2. Ids(t) \subseteq 1 .. nreq /\ Below(Ids(t), Ids(pending)) /\ Below(Ids(t), Ids(ToSend))
    BY <1>12, <1>13 DEF Below
  <2>3. QED
    BY <1>5, <1>13, <2>1, <2>2 DEF Downward
<1>15. Once'
  <2> SUFFICES ASSUME noise = 0 PROVE Once'
    BY DEF Once
  <2>1. /\ \A i, j \in 1 .. Len(taken) : i < j => taken[i][2] < taken[j][2]
        /\ TakenIds \subseteq 1 .. nreq
        /\ Below(TakenIds, Ids(s)) /\ Below(TakenIds, Ids(pending)) /\ Below(TakenIds, Ids(ToSend))
    BY <1>1 DEF Tokens, Once
  <2>2. Below(TakenIds, Ids(t))
    BY <1>12, <2>1 DEF Below
  <2>3. CASE taken' = taken
    <3>1. TakenIds' = TakenIds
      BY <2>3 DEF TakenIds
    <3>2. QED
      BY <1>5, <2>1, <2>2, <2>3, <3>1 DEF Once
  <2>4. CASE x.kind = "end" /\ taken' = Append(taken, <<first.cmd, first.id>>)
    <3>1. first.id = x.id /\ x.id \in Ids(s)
      BY <1>12, <1>13, <2>4 DEF Same
    <3>2. /\ Len(taken) \in Nat /\ Len(taken') = Len(taken) + 1
          /\ \A i \in 1 .. Len(taken) : taken'[i] = taken[i]
          /\ taken'[Len(taken) + 1] = <<first.cmd, first.id>>
      BY <1>2, <1>8, <2>4
    <3>3. taken'[Len(taken) + 1][2] = x.id
      BY <3>1, <3>2
    <3>4. \A i \in 1 .. Len(taken') : i \in 1 .. Len(taken) \/ i = Len(taken) + 1
      BY <3>2
    <3>5. \A i \in 1 .. Len(taken) : taken[i][2] < x.id /\ taken[i][2] \in TakenIds
      BY <2>1, <3>1 DEF Below, TakenIds
    <3>6. \A i, j \in 1 .. Len(taken') : i < j => taken'[i][2] < taken'[j][2]
      <4>1. \A i, j \in 1 .. Len(taken') :
              i < j => i \in 1 .. Len(taken) /\ (j \in 1 .. Len(taken) \/ j = Len(taken) + 1)
        BY <3>2
      <4>2. QED
        BY <2>1, <3>2, <3>3, <3>5, <4>1
    <3>7. TakenIds' \subseteq TakenIds \cup {x.id}
      BY <3>2, <3>3, <3>4 DEF TakenIds
    <3>8. /\ TakenIds' \subseteq 1 .. nreq
          /\ Below(TakenIds', Ids(t)) /\ Below(TakenIds', Ids(pending))
          /\ Below(TakenIds', Ids(ToSend))
      BY <1>13, <2>1, <2>2, <2>4, <3>1, <3>7 DEF Below
    <3>9. QED
      BY <1>5, <3>6, <3>8 DEF Once
  <2>5. QED
    BY <1>3, <2>3, <2>4
<1>16. Bodies'
  BY <1>3, <1>6 DEF Tokens, Bodies, Real
<1>17. QED
  BY <1>6, <1>10, <1>11, <1>14, <1>15, <1>16 DEF Tokens

-----------------------------------------------------------------------------
(* The calls *)

Calls == Calling /\ Answer /\ Mine

LEMMA OutstandingIs ==
    /\ \A x : x \in Outstanding <=>
         /\ x.id # 0
         /\ x \in Range(e_tx) \cup Range(heard) \cup Range(pending) \cup Range(line) \cup Range(e_rx)
    /\ \A x : x \in Outstanding' <=>
         /\ x.id # 0
         /\ x \in Range(e_tx') \cup Range(heard') \cup Range(pending') \cup Range(line')
                   \cup Range(e_rx')
  BY Zenon DEF Outstanding

LEMMA CallsStart == Init => Calls
  BY DEF Init, Calls, Calling, Answer, Mine, Waiting, Waits, Sends

\* What the UART, the ESP8266 and the line do leaves the calls alone.
LEMMA WorldCalls ==
    ASSUME Calls,
           UNCHANGED <<pc, op, out, e_is_return, e_cur_cmd, e_cur_cb, e_return_value, in_prog,
                       res, first, nreq, owed, taken>>,
           noise' = 0 => /\ noise = 0
                         /\ \A x \in Outstanding' : \E y \in Outstanding :
                              y.id = x.id /\ AnswerTo(y.cmd) = AnswerTo(x.cmd)
    PROVE  Calls'
<1>1. Waiting' = Waiting /\ TakenIds' = TakenIds
  BY DEF Waiting, TakenIds
<1>2. Calling' /\ Answer'
  BY <1>1 DEF Calls, Calling, Writing, Answer
<1>3. Mine'
  BY <1>1 DEF Calls, Mine
<1>4. QED
  BY <1>2, <1>3 DEF Calls

\* Between two calls, or where a wait begins, nothing has been returned.
LEMMA QuietCalls ==
    ASSUME Calling', \/ ~Waiting' /\ pc' # "send"
                     \/ /\ Waiting' => ~e_is_return'
                        /\ noise' = 0 /\ ~owed' =>
                             /\ pc' \in {"send", "look", "proc"} /\ op' \in {"ready", "begin", "header"} =>
                                  \A x \in Outstanding' : AnswerTo(x.cmd) = Command(op') => x.id = nreq'
                             /\ Waiting' /\ op' = "response" => \A x \in Outstanding' : x.id = nreq'
    PROVE  Calls'
<1>1. CASE ~Waiting' /\ pc' # "send"
  <2>1. ~(pc' \in {"send", "look", "proc"} /\ op' \in {"ready", "begin", "header"})
    BY <1>1 DEF Waiting, Waits
  <2>2. QED
    BY <1>1, <2>1 DEF Calls, Answer, Mine
<1>2. CASE ~(~Waiting' /\ pc' # "send")
  BY <1>2 DEF Calls, Answer, Mine
<1>3. QED
  BY <1>1, <1>2

LEMMA RequestCalls ==
    ASSUME Calls, Tokens, NEW o \in Sends, Request(o), op' = o, out = <<>>,
           o = "ready" => ~e_is_return', UNCHANGED <<e_tx, heard, pending, line, e_rx>>
    PROVE  Calls'
<1>1. pc' = "send" /\ nreq' = nreq + 1 /\ out' = Frame(Command(o), nreq + 1, 0)
  BY DEF Request
<1>2. Outstanding' = Outstanding
  BY DEF Outstanding
<1>3. ~owed' => \A x \in Outstanding : AnswerTo(x.cmd) # Command(o)
  BY Zenon DEF Request
<1>4. ~Waiting'
  BY <1>1 DEF Waiting
<1>5. Calling'
  BY <1>1, <1>4 DEF Calling, Writing
<1>6. QED
  BY <1>1, <1>2, <1>3, <1>4, <1>5, QuietCalls

LEMMA CallStep ==
    ASSUME EspInv, Call
    PROVE  EspInv'
<1>0. pc = "idle" => out = <<>>
  BY DEF EspInv, Calling
<1>1. CASE EspReady
  <2>1. /\ pc = "idle" /\ Request("ready") /\ op' = "ready" /\ e_is_return' = FALSE
        /\ UNCHANGED <<e_tx, heard, pending, e_rx, line, first, dataLen, e_return_value,
                       noise, taken>>
    BY <1>1 DEF EspReady, world
  <2>2. "ready" \in Sends
    BY DEF Sends
  <2>3. Tokens'
    BY <1>0, <2>1, <2>2, RequestTokens DEF EspInv, Request
  <2>4. Calls'
    BY <1>0, <2>1, <2>2, RequestCalls DEF EspInv, Calls
  <2>5. QED
    BY <2>3, <2>4 DEF EspInv, Calls
<1>2. ASSUME NEW o \in Ops, CallSends(o) PROVE EspInv'
  <2>1. /\ pc = "idle" /\ Request(o) /\ op' = o /\ o \in Sends /\ o # "ready"
        /\ UNCHANGED <<e_tx, heard, pending, e_rx, line, first, dataLen, e_return_value,
                       noise, taken>>
    BY <1>2 DEF CallSends, world, library, Sends
  <2>3. Tokens'
    BY <1>0, <2>1, RequestTokens DEF EspInv, Request
  <2>4. Calls'
    BY <1>0, <2>1, RequestCalls DEF EspInv, Calls
  <2>5. QED
    BY <2>3, <2>4 DEF EspInv, Calls
<1>3. CASE GetResponse
  <2>1. /\ pc = "idle" /\ op' = "response" /\ in_prog' = TRUE /\ pc' = "look"
        /\ e_cur_cmd' = "CMD_REST_EVENTS" /\ e_cur_cb' = TRUE /\ e_is_return' = FALSE
        /\ UNCHANGED tokens
    BY <1>3 DEF GetResponse, world, tokens
  <2>2. Tokens'
    BY <2>1, TokensStay DEF EspInv
  <2>3. Outstanding' = Outstanding
    BY <2>1 DEF Outstanding, tokens
  <2>4. ~owed' => \A x \in Outstanding : x.id = nreq
    BY <1>3, Zenon DEF GetResponse
  <2>5. Calling'
    BY <1>0, <2>1 DEF Calling, tokens, Waiting, Waits, Command
  <2>6. Calls'
    BY <2>1, <2>3, <2>4, <2>5, QuietCalls DEF tokens
  <2>7. QED
    BY <2>2, <2>6 DEF EspInv, Calls
<1>4. CASE CallProcess
  <2>1. pc = "idle" /\ op' = "process" /\ pc' = "proc" /\ UNCHANGED tokens
    BY <1>4 DEF CallProcess, library, world, history, tokens
  <2>2. Tokens'
    BY <2>1, TokensStay DEF EspInv
  <2>3. ~Waiting'
    BY <2>1 DEF Waiting, Waits
  <2>4. Calling'
    BY <1>0, <2>1, <2>3 DEF Calling, tokens
  <2>5. Calls'
    BY <2>1, <2>3, <2>4, QuietCalls
  <2>6. QED
    BY <2>2, <2>5 DEF EspInv, Calls
<1>5. QED
  BY <1>1, <1>2, <1>3, <1>4 DEF Call

\* While the request is written every token of it is the call's own.
LEMMA WritingIs ==
    ASSUME Tokens, Calling, WriteToken
    PROVE  Head(out).id = nreq /\ op \in Sends /\ Calling'
<1>0. /\ pc = "send" /\ out # <<>> /\ out' = Tail(out)
      /\ UNCHANGED <<pc, op, nreq, e_is_return, in_prog>>
      /\ Head(out).kind = "body" => e_cur_cmd' = Head(out).cmd
      /\ Head(out).kind # "body" => e_cur_cmd' = e_cur_cmd
  BY DEF WriteToken, history, rest
<1>1. op \in Sends /\ nreq \in Nat /\ Command(op) \in Cmds
  BY <1>0, CommandIs DEF Calling, Tokens, EspTypeOK
<1>2. PICK f \in Seq(Tok) : f = Frame(Command(op), nreq, 0)
  BY <1>1, FrameIs
<1>3. /\ f[1].kind = "start" /\ f[2].kind = "body" /\ f[3].kind = "end"
      /\ \A i \in 1 .. 3 : f[i].cmd = Command(op) /\ f[i].id = nreq
      /\ f = <<f[1], f[2], f[3]>>
  BY <1>1, <1>2, FrameIs
<1>4. /\ f[1].id = nreq /\ f[2].id = nreq /\ f[3].id = nreq /\ f[2].cmd = Command(op)
  BY <1>3
<1>5. \/ out = <<f[1], f[2], f[3]>>
      \/ out = <<f[2], f[3]>>
      \/ out = <<f[3]>> /\ e_cur_cmd = Command(op)
  BY <1>0, <1>2, <1>3 DEF Calling, Writing
<1> DEFINE Goal == Head(out).id = nreq /\ Writing(f)'
<1>6. ASSUME out = <<f[1], f[2], f[3]>> PROVE Goal
  <2>1. Head(out) = f[1] /\ Tail(out) = <<f[2], f[3]>>
    BY <1>6
  <2>2. QED
    BY <1>0, <1>3, <1>4, <2>1 DEF Writing
<1>7. ASSUME out = <<f[2], f[3]>> PROVE Goal
  <2>1. Head(out) = f[2] /\ Tail(out) = <<f[3]>>
    BY <1>7
  <2>2. QED
    BY <1>0, <1>3, <1>4, <2>1 DEF Writing
<1>8. ASSUME out = <<f[3]>>, e_cur_cmd = Command(op) PROVE Goal
  <2>1. Head(out) = f[3] /\ Tail(out) = <<>>
    BY <1>8
  <2>2. QED
    BY <1>0, <1>3, <1>4, <1>8, <2>1 DEF Writing
<1>9. Goal
  BY <1>5, <1>6, <1>7, <1>8
<1>10. Writing(Frame(Command(op), nreq, 0))'
  BY <1>0, <1>2, <1>9 DEF Writing
<1>11. Calling'
  BY <1>0, <1>1, <1>10 DEF Calling, Waiting
<1>12. QED
  BY <1>1, <1>9, <1>11

LEMMA SendStep ==
    ASSUME EspInv, Send
    PROVE  EspInv'
<1>1. CASE WriteToken
  <2>1. /\ pc = "send" /\ pc' = pc /\ op' = op /\ out # <<>> /\ e_tx' = Append(e_tx, Head(out))
        /\ out' = Tail(out)
        /\ UNCHANGED <<heard, pending, e_rx, line, first, dataLen, e_return_value, nreq,
                       noise, owed, taken>>
    BY <1>1 DEF WriteToken, world, history
  <2>2. Tokens'
    BY <2>1, WriteTokens DEF EspInv
  <2>3. Head(out).id = nreq /\ op \in Sends /\ Calling'
    BY <1>1, WritingIs DEF EspInv
  <2>4. Range(e_tx') = Range(e_tx) \cup {Head(out)}
    <3>1. e_tx \in Seq(Tok) /\ Head(out) \in Tok
      BY <2>1, HeadTail DEF EspInv, Tokens, EspTypeOK
    <3>2. QED
      BY <2>1, <3>1, Appended
  <2>5. \A x \in Outstanding' : x \in Outstanding \/ x = Head(out)
    BY <2>1, <2>4, OutstandingIs
  <2>6. ~Waiting' /\ pc' = "send"
    BY <2>1 DEF Waiting
  <2>7. noise' = 0 /\ ~owed' /\ op' \in {"ready", "begin", "header"} =>
          \A x \in Outstanding' : AnswerTo(x.cmd) = Command(op') => x.id = nreq'
    BY <2>1, <2>3, <2>5 DEF EspInv, Mine
  <2>8. Calls'
    BY <2>3, <2>6, <2>7, QuietCalls
  <2>9. QED
    BY <2>2, <2>8 DEF EspInv, Calls
<1>2. CASE SentNoWait
  <2>1. pc' = "idle" /\ out = <<>> /\ UNCHANGED tokens
    BY <1>2 DEF SentNoWait, library, world, history, tokens
  <2>2. Tokens'
    BY <2>1, TokensStay DEF EspInv
  <2>3. ~Waiting' /\ Calling'
    BY <2>1 DEF Waiting, Calling, tokens
  <2>4. Calls'
    BY <2>1, <2>3, QuietCalls
  <2>5. QED
    BY <2>2, <2>4 DEF EspInv, Calls
<1>3. CASE SentWait
  <2>1. /\ pc = "send" /\ pc' = "look" /\ op' = op /\ op \in {"ready", "begin", "header"}
        /\ out = <<>> /\ UNCHANGED tokens /\ UNCHANGED <<owed, e_cur_cmd>>
        /\ e_is_return' = IF op = "ready" THEN e_is_return ELSE FALSE
    BY <1>3 DEF SentWait, world, history, tokens
  <2>2. Tokens'
    BY <2>1, TokensStay DEF EspInv
  <2>3. ~e_is_return'
    BY <2>1 DEF EspInv, Calling
  <2>4. e_cur_cmd = Command(op)
    <3>1. op \in Sends /\ nreq \in Nat /\ Command(op) \in Cmds
      BY <2>1, CommandIs DEF EspInv, Tokens, EspTypeOK, Sends
    <3>2. PICK f \in Seq(Tok) : f = Frame(Command(op), nreq, 0) /\ f # <<>>
      BY <3>1, FrameIs
    <3>3. <<f[2], f[3]>> # <<>> /\ <<f[3]>> # <<>>
      OBVIOUS
    <3>4. QED
      BY <2>1, <3>2, <3>3 DEF EspInv, Calling, Writing
  <2>5. Calling'
    BY <2>1, <2>4 DEF Calling, Waiting, Waits, tokens
  <2>6. Outstanding' = Outstanding
    BY <2>1 DEF Outstanding, tokens
  <2>7. noise' = 0 /\ ~owed' =>
          \A x \in Outstanding' : AnswerTo(x.cmd) = Command(op') => x.id = nreq'
    BY <2>1, <2>6 DEF EspInv, Mine, tokens
  <2>8. Calls'
    BY <2>1, <2>3, <2>5, <2>7, QuietCalls
  <2>9. QED
    BY <2>2, <2>8 DEF EspInv, Calls
<1>4. QED
  BY <1>1, <1>2, <1>3 DEF Send

\* A step inside the loop that leaves tokens and answer alone.
LEMMA LoopCalls ==
    ASSUME EspInv, UNCHANGED tokens, pc' \in {"look", "proc"}, pc \in {"look", "proc"}, op \in Waits,
           UNCHANGED <<op, e_is_return, e_cur_cmd, e_cur_cb, in_prog, res, owed>>
    PROVE  EspInv'
<1>1. Tokens'
  BY TokensStay DEF EspInv
<1>2. Waiting /\ Waiting' /\ Outstanding' = Outstanding /\ TakenIds' = TakenIds
  BY DEF Waiting, Outstanding, TakenIds, tokens
<1>3. Calling'
  BY <1>2 DEF EspInv, Calling, tokens
<1>4. Answer' /\ Mine'
  BY <1>2 DEF EspInv, Answer, Mine, tokens
<1>5. QED
  BY <1>1, <1>3, <1>4 DEF EspInv

LEMMA WaitStep ==
    ASSUME EspInv, Wait
    PROVE  EspInv'
<1>1. CASE LookGoesOn
  <2>1. /\ pc = "look" /\ pc' = "proc" /\ UNCHANGED tokens
        /\ UNCHANGED <<op, e_is_return, e_cur_cmd, e_cur_cb, in_prog, res, owed>>
    BY <1>1 DEF LookGoesOn, library, rest, world, history, tokens
  <2>2. QED
    BY <2>1, LoopCalls DEF EspInv, Calling
<1>2. CASE ReadyAgain
  <2>1. /\ pc = "look" /\ Request("ready") /\ op' = "ready" /\ e_is_return' = FALSE
        /\ UNCHANGED <<e_tx, heard, pending, e_rx, line, first, dataLen, e_return_value,
                       noise, taken>>
    BY <1>2 DEF ReadyAgain, LookEnds, world
  <2>2. "ready" \in Sends /\ out = <<>>
    BY <2>1 DEF Sends, EspInv, Calling
  <2>3. Tokens'
    BY <2>1, <2>2, RequestTokens DEF EspInv, Request
  <2>4. Calls'
    BY <2>1, <2>2, RequestCalls DEF EspInv, Calls
  <2>5. QED
    BY <2>3, <2>4 DEF EspInv, Calls
<1>3. CASE ReadyReturns \/ WaitReturns \/ ResponseReturns
  <2>1. pc = "look" /\ pc' = "idle" /\ UNCHANGED tokens
    BY <1>3 DEF ReadyReturns, WaitReturns, ResponseReturns, LookEnds, Return, library, world,
                history, tokens
  <2>2. Tokens'
    BY <2>1, TokensStay DEF EspInv
  <2>3. ~Waiting' /\ Calling'
    BY <2>1 DEF Waiting, EspInv, Calling, tokens
  <2>4. Calls'
    BY <2>1, <2>3, QuietCalls
  <2>5. QED
    BY <2>2, <2>4 DEF EspInv, Calls
<1>4. QED
  BY <1>1, <1>2, <1>3 DEF Wait

\* The parser at a token that completes no answer: a new body does not reach the
\* buffer while an answer waits there, since all others would be younger.
LEMMA ParseCalls ==
    ASSUME EspInv, Tokens', pc = "proc", UNCHANGED <<pc, op, out>>, e_rx # <<>>, e_rx' = Tail(e_rx),
           UNCHANGED <<e_is_return, e_cur_cmd, e_cur_cb, e_return_value, in_prog, res, nreq, noise,
                       owed, taken, e_tx, heard, pending, line>>
    PROVE  EspInv'
<1>1. Waiting' = Waiting /\ TakenIds' = TakenIds
  BY DEF Waiting, TakenIds
<1>2. e_rx \in Seq(Tok) /\ line \in Seq(Tok) /\ nreq \in Nat
  BY DEF EspInv, Tokens, EspTypeOK
<1>3. PICK x \in Tok : x = Head(e_rx) /\ Range(e_rx) = {x} \cup Range(e_rx') /\ x.id \in Ids(e_rx)
  BY <1>2, HeadTail
<1>4. \A y \in Outstanding' : y \in Outstanding
  BY <1>3, OutstandingIs
<1>5. Calling' /\ Answer'
  BY <1>1 DEF EspInv, Calling, Writing, Answer
<1>6. ASSUME Waiting, e_is_return, op = "response", noise = 0, ~owed
      PROVE  FALSE
  <2>1. nreq \in TakenIds
    BY <1>6 DEF EspInv, Mine
  <2>2. x.id \in Ids(Coming)
    BY <1>2, <1>3, Joined DEF Coming
  <2>3. x.id \in 1 .. nreq /\ nreq < x.id
    BY <1>6, <2>1, <2>2 DEF EspInv, Tokens, Downward, Once, Below
  <2>4. QED
    BY <1>2, <2>3
<1>7. Mine'
  BY <1>1, <1>4, <1>6 DEF EspInv, Mine
<1>8. QED
  BY <1>5, <1>7 DEF EspInv

\* The parser at the end of a frame it accepts.
LEMMA AcceptCalls ==
    ASSUME EspInv, Tokens', TakeEnd, Accepted
    PROVE  EspInv'
<1>1. /\ pc = "proc" /\ e_rx # <<>> /\ Head(e_rx).kind = "end" /\ e_rx' = Tail(e_rx)
      /\ e_is_return' = TRUE /\ e_return_value' = first
      /\ taken' = Append(taken, <<first.cmd, first.id>>)
      /\ UNCHANGED <<pc, op, out, first, e_cur_cmd, e_cur_cb, in_prog, nreq, noise, owed, e_tx,
                     heard, pending, line>>
      /\ first.kind = "body" /\ first.cmd = e_cur_cmd
  BY DEF TakeEnd, Accepted, task, world
<1>2. Waiting' = Waiting
  BY <1>1 DEF Waiting
<1>3. e_rx \in Seq(Tok) /\ line \in Seq(Tok) /\ taken \in Seq(Cmds \X Nat) /\ first \in Tok
        /\ nreq \in Nat
  BY DEF EspInv, Tokens, EspTypeOK
<1>4. PICK x \in Tok : x = Head(e_rx) /\ Range(e_rx) = {x} \cup Range(e_rx')
  BY <1>1, <1>3, HeadTail
<1>5. \A y \in Outstanding' : y \in Outstanding
  BY <1>1, <1>4, OutstandingIs
<1>6. Calling'
  BY <1>1, <1>2 DEF EspInv, Calling, Writing
<1>7. Answer'
  BY <1>1, <1>2 DEF EspInv, Tokens, Bodies, Real, Answer, Calling
<1>8. noise = 0 => Same(first, x) /\ x \in Outstanding
  <2> SUFFICES ASSUME noise = 0 PROVE Same(first, x) /\ x \in Outstanding
    OBVIOUS
  <2>1. Coming # <<>> /\ Coming[1] = x /\ x.id \in Ids(e_rx) /\ Ids(Coming) = Ids(e_rx) \cup Ids(line)
    BY <1>1, <1>3, <1>4, Joined, HeadTail DEF Coming
  <2>2. Same(first, x) /\ x.id \in 1 .. nreq
    BY <1>1, <1>4, <2>1 DEF EspInv, Tokens, Downward
  <2>3. x.id # 0
    BY <1>3, <2>2
  <2>4. QED
    BY <1>4, <2>2, <2>3, OutstandingIs
<1>9. noise = 0 /\ ~owed /\ Waiting => first.id = nreq
  <2> SUFFICES ASSUME noise = 0, ~owed, Waiting PROVE first.id = nreq
    OBVIOUS
  <2>1. first.id = x.id /\ x.cmd = Command(op) /\ x \in Outstanding
    BY <1>1, <1>8 DEF Same, EspInv, Calling
  <2>2. CASE op = "response"
    BY <2>1, <2>2 DEF EspInv, Mine
  <2>3. CASE op # "response"
    <3>1. op \in {"ready", "begin", "header"} /\ pc \in {"send", "look", "proc"}
      BY <1>1, <2>3 DEF Waiting, Waits
    <3>2. AnswerTo(x.cmd) = Command(op)
      BY <2>1, <3>1, CommandIs DEF Waits
    <3>3. QED
      BY <2>1, <3>1, <3>2 DEF EspInv, Mine
  <2>4. QED
    BY <2>2, <2>3
<1>10. first.id \in TakenIds'
  <2>1. PICK e \in Cmds \X Nat : e = <<first.cmd, first.id>>
    BY <1>3, TokIs
  <2>2. Len(taken') = Len(taken) + 1 /\ taken'[Len(taken) + 1] = e /\ Len(taken) \in Nat
    BY <1>1, <1>3, <2>1
  <2>3. Len(taken) + 1 \in 1 .. Len(taken') /\ taken'[Len(taken) + 1][2] = first.id
    BY <2>1, <2>2
  <2>4. QED
    BY <2>3 DEF TakenIds
<1>11. Waiting /\ op = "response" => res'
  <2>1. Waiting /\ op = "response" => e_cur_cb /\ in_prog
    BY DEF EspInv, Calling
  <2>2. res' = (res \/ (e_cur_cb /\ in_prog))
    BY Zenon DEF TakeEnd
  <2>3. QED
    BY <2>1, <2>2, Zenon
<1>12. Mine'
  <2>1. noise = 0 /\ ~owed =>
          /\ pc \in {"send", "look", "proc"} /\ op \in {"ready", "begin", "header"} =>
               \A y \in Outstanding' : AnswerTo(y.cmd) = Command(op) => y.id = nreq
          /\ Waiting /\ op = "response" => \A y \in Outstanding' : y.id = nreq
    BY <1>5 DEF EspInv, Mine
  <2>2. noise = 0 /\ ~owed /\ Waiting => nreq \in TakenIds'
    BY <1>9, <1>10
  <2>3. QED
    BY <1>1, <1>2, <1>9, <1>11, <2>1, <2>2 DEF Mine
<1>13. QED
  BY <1>6, <1>7, <1>12 DEF EspInv

LEMMA ProcessStep ==
    ASSUME EspInv, Process
    PROVE  EspInv'
<1>1. CASE TakeStart \/ TakeBody \/ TakeEnd
  <2>1. /\ pc = "proc" /\ e_rx # <<>> /\ e_rx' = Tail(e_rx)
        /\ UNCHANGED <<pc, op, out, e_tx, heard, pending, line, nreq, noise, owed, in_prog,
                       e_cur_cmd, e_cur_cb>>
    BY <1>1 DEF TakeStart, TakeBody, TakeEnd, task, world, history, rest
  <2>2. Tokens'
    <3>1. first' \in {first, Head(e_rx)} /\ e_return_value' \in {e_return_value, first}
      BY <1>1 DEF TakeStart, TakeBody, TakeEnd
    <3>2. CASE TakeStart
      <4>1. Head(e_rx).kind = "start" /\ dataLen' = 0 /\ taken' = taken
        BY <3>2 DEF TakeStart, history
      <4>2. QED
        BY <2>1, <3>1, <4>1, TakeTokens DEF EspInv
    <3>3. CASE TakeBody
      <4>1. /\ Head(e_rx).kind \in {"body", "bad"} /\ taken' = taken
            /\ dataLen = 0 => first' = Head(e_rx)
        BY <3>3 DEF TakeBody, history
      <4>2. QED
        BY <2>1, <3>1, <4>1, TakeTokens DEF EspInv
    <3>4. CASE TakeEnd
      <4>1. /\ Head(e_rx).kind = "end" /\ first' = first
            /\ \/ taken' = taken
               \/ first.kind = "body" /\ taken' = Append(taken, <<first.cmd, first.id>>)
        BY <3>4 DEF TakeEnd, Accepted
      <4>2. QED
        BY <2>1, <3>1, <4>1, TakeTokens DEF EspInv
    <3>5. QED
      BY <1>1, <3>2, <3>3, <3>4
  <2>3. CASE TakeEnd /\ Accepted
    BY <2>2, <2>3, AcceptCalls
  <2>4. CASE ~(TakeEnd /\ Accepted)
    <3>1. UNCHANGED <<e_is_return, e_return_value, res, taken>>
      BY <1>1, <2>4 DEF TakeStart, TakeBody, TakeEnd, history, rest
    <3>2. QED
      BY <2>1, <2>2, <3>1, ParseCalls
  <2>5. QED
    BY <2>3, <2>4
<1>2. CASE ProcessReturns
  <2>1. /\ pc = "proc" /\ UNCHANGED tokens
        /\ UNCHANGED <<e_is_return, e_cur_cmd, e_cur_cb, in_prog, res, owed>>
        /\ \/ op = "process" /\ pc' = "idle" /\ op' = "none"
           \/ op # "process" /\ pc' = "look" /\ op' = op
    BY <1>2 DEF ProcessReturns, library, rest, world, history, tokens
  <2>2. CASE op = "process"
    <3>1. Tokens'
      BY <2>1, TokensStay DEF EspInv
    <3>2. pc' = "idle" /\ ~Waiting' /\ Calling'
      BY <2>1, <2>2 DEF Waiting, EspInv, Calling, tokens
    <3>3. Calls'
      BY <3>2, QuietCalls
    <3>4. QED
      BY <3>1, <3>3 DEF EspInv, Calls
  <2>3. CASE op # "process"
    <3>1. op \in Waits
      BY <2>1, <2>3 DEF EspInv, Calling
    <3>2. QED
      BY <2>1, <2>3, <3>1, LoopCalls
  <2>4. QED
    BY <2>2, <2>3
<1>3. QED
  BY <1>1, <1>2 DEF Process

LEMMA WorldStep ==
    ASSUME EspInv, Peer \/ UartTx \/ UartRx \/ Noise \/ OsTick
    PROVE  EspInv'
<1>0. EspInv <=> Tokens /\ Calls
  BY DEF EspInv, Calls
<1>1. CASE UartTx
  <2>1. UNCHANGED <<pc, op, out, e_is_return, e_cur_cmd, e_cur_cb, e_return_value, in_prog,
                    res, first, nreq, noise, owed, taken, line, e_rx>>
    BY <1>1 DEF UartTx, rest, task, history
  <2>2. /\ Tokens'
        /\ \A x \in Range(heard') \cup Range(pending') :
             x \in Range(e_tx) \cup Range(heard) \cup Range(pending)
        /\ Range(e_tx') \subseteq Range(e_tx)
    BY <1>1, UartTxTokens DEF EspInv
  <2>3. \A x \in Outstanding' : x \in Outstanding
    BY <2>1, <2>2, OutstandingIs
  <2>4. Calls'
    BY <1>0, <2>1, <2>3, WorldCalls
  <2>5. QED
    BY <2>2, <2>4 DEF EspInv, Calls
<1>2. CASE PeerIgnores
  <2>1. UNCHANGED <<pc, op, out, e_is_return, e_cur_cmd, e_cur_cb, e_return_value, in_prog,
                    res, first, nreq, noise, owed, taken, line, e_rx, e_tx, heard>>
    BY <1>2 DEF PeerIgnores, library, rest, task, history
  <2>2. Tokens' /\ Range(pending') \subseteq Range(pending)
    BY <1>2, IgnoreTokens DEF EspInv
  <2>3. \A x \in Outstanding' : x \in Outstanding
    BY <2>1, <2>2, OutstandingIs
  <2>4. Calls'
    BY <1>0, <2>1, <2>3, WorldCalls
  <2>5. QED
    BY <2>2, <2>4 DEF EspInv, Calls
<1>3. ASSUME NEW val \in {0, 1}, PeerAnswers(val) PROVE EspInv'
  <2>1. UNCHANGED <<pc, op, out, e_is_return, e_cur_cmd, e_cur_cb, e_return_value, in_prog,
                    res, first, nreq, noise, owed, taken, e_rx, e_tx, heard>>
    BY <1>3 DEF PeerAnswers, library, rest, task, history
  <2>2. /\ Tokens' /\ Range(pending') \subseteq Range(pending)
        /\ \A x \in Range(line') : \E y \in Range(pending) :
             x.id = y.id /\ AnswerTo(x.cmd) = AnswerTo(y.cmd)
    BY <1>3, AnswerTokens DEF EspInv
  <2>3. ASSUME NEW x \in Outstanding'
        PROVE  \E y \in Outstanding : y.id = x.id /\ AnswerTo(y.cmd) = AnswerTo(x.cmd)
    <3>1. CASE x \in Range(line')
      <4>1. PICK y \in Range(pending) : x.id = y.id /\ AnswerTo(x.cmd) = AnswerTo(y.cmd)
        BY <2>2, <3>1
      <4>2. y \in Outstanding
        BY <4>1, OutstandingIs
      <4>3. QED
        BY <4>1, <4>2
    <3>2. CASE x \notin Range(line')
      <4>1. x \in Outstanding
        BY <2>1, <2>2, <3>2, OutstandingIs
      <4>2. QED
        BY <4>1
    <3>3. QED
      BY <3>1, <3>2
  <2>4. Calls'
    BY <1>0, <2>1, <2>3, WorldCalls
  <2>5. QED
    BY <2>2, <2>4 DEF EspInv, Calls
<1>4. CASE UartRx
  <2>1. UNCHANGED <<pc, op, out, e_is_return, e_cur_cmd, e_cur_cb, e_return_value, in_prog,
                    res, first, nreq, owed, taken, e_tx, heard, pending>>
    BY <1>4 DEF UartRx, rest, task
  <2>2. /\ Tokens' /\ Range(line') \subseteq Range(line)
        /\ Range(e_rx') \subseteq Range(e_rx) \cup Range(line)
    BY <1>4, UartRxTokens DEF EspInv
  <2>3. \A x \in Outstanding' : x \in Outstanding
    BY <2>1, <2>2, OutstandingIs
  <2>4. noise' = 0 => noise = 0
    BY <1>4 DEF UartRx, EspInv, Tokens, EspTypeOK
  <2>5. Calls'
    BY <1>0, <2>1, <2>3, <2>4, WorldCalls
  <2>6. QED
    BY <2>2, <2>5 DEF EspInv, Calls
<1>5. CASE Noise
  <2>1. UNCHANGED <<pc, op, out, e_is_return, e_cur_cmd, e_cur_cb, e_return_value, in_prog,
                    res, first, nreq, owed, taken>>
    BY <1>5 DEF Noise, library, rest, task
  <2>2. Tokens' /\ noise' # 0
    BY <1>5, NoiseTokens DEF EspInv
  <2>3. Calls'
    BY <1>0, <2>1, <2>2, WorldCalls
  <2>4. QED
    BY <2>2, <2>3 DEF EspInv, Calls
<1>6. CASE OsTick
  <2>1. /\ UNCHANGED tokens
        /\ UNCHANGED <<pc, op, out, e_is_return, e_cur_cmd, e_cur_cb, e_return_value, in_prog,
                       res, first, nreq, noise, owed, taken>>
    BY <1>6 DEF OsTick, library, rest, task, world, history, tokens
  <2>2. Tokens' /\ Outstanding' = Outstanding
    BY <2>1, TokensStay DEF EspInv, Outstanding, tokens
  <2>3. Calls'
    BY <1>0, <2>1, <2>2, WorldCalls
  <2>4. QED
    BY <2>2, <2>3 DEF EspInv, Calls
<1>7. QED
  BY <1>1, <1>2, <1>3, <1>4, <1>5, <1>6 DEF Peer

LEMMA EspInvStep ==
    ASSUME EspInv, [Next]_vars
    PROVE  EspInv'
<1>1. CASE UNCHANGED vars
  <2>1. /\ UNCHANGED tokens
        /\ UNCHANGED <<pc, op, out, e_is_return, e_cur_cmd, e_cur_cb, e_return_value, in_prog,
                       res, first, nreq, noise, owed, taken>>
    BY <1>1 DEF vars, library, rest, task, world, history, tokens
  <2>2. Tokens' /\ Outstanding' = Outstanding
    BY <2>1, TokensStay DEF EspInv, Outstanding, tokens
  <2>3. Calls'
    BY <2>1, <2>2, WorldCalls DEF EspInv, Calls
  <2>4. QED
    BY <2>2, <2>3 DEF EspInv, Calls
<1>2. QED
  BY <1>1, CallStep, SendStep, WaitStep, ProcessStep, WorldStep DEF Next

LEMMA EspInvAlways == Spec => []EspInv
<1>1. Init => EspInv
  BY TokensStart, CallsStart DEF EspInv, Calls
<1>2. QED
  BY <1>1, EspInvStep, PTL DEF Spec

\* For buffers of any size and any number of requests and time-outs, on a line
\* that loses nothing the library accepts no answer twice, and answers of one
\* command in the order of the requests.
THEOREM EspTakenOnce == Spec => []TakenOnce
<1>1. EspInv => TakenOnce
  BY DEF EspInv, Tokens, Once, TakenOnce
<1>2. QED
  BY <1>1, EspInvAlways, PTL

\* Whatever is lost or damaged, a call that succeeds has the answer to a request
\* of its command that was made; on a line that loses nothing, and when no older
\* answer was outstanding, to its own.
THEOREM EspAnswerIsOwn == Spec => AnswerIsOwn
<1>1. EspInv => (Succeeds =>
        /\ e_return_value.cmd = AnswerTo(Command(op))
        /\ e_return_value.id \in 1 .. nreq
        /\ noise = 0 /\ ~owed /\ op \in {"ready", "begin", "header"}
             => e_return_value.id = nreq)
  <2> SUFFICES ASSUME EspInv, Succeeds
               PROVE  /\ e_return_value.cmd = AnswerTo(Command(op))
                      /\ e_return_value.id \in 1 .. nreq
                      /\ noise = 0 /\ ~owed => e_return_value.id = nreq
    OBVIOUS
  <2>1. pc = "look" /\ e_is_return
    BY DEF Succeeds, LookEnds
  <2>2. Waiting /\ op \in Waits
    BY <2>1 DEF EspInv, Calling, Waiting
  <2>3. AnswerTo(Command(op)) = Command(op)
    BY <2>2, CommandIs DEF Waits
  <2>4. QED
    BY <2>1, <2>2, <2>3 DEF EspInv, Answer, Mine
<1>2. QED
  BY <1>1, EspInvAlways, PTL DEF AnswerIsOwn

\* esp_rest_get_response finds in the parser's buffer the frame whose code it
\* returns, although esp_process went on parsing: on a line that loses nothing
\* and when nothing older was outstanding, that of the last request.
THEOREM EspResponseIntact == Spec => ResponseIntact
<1>1. EspInv => (Succeeds /\ op = "response" /\ noise = 0 /\ ~owed
                   => res /\ first = e_return_value /\ first.id = nreq)
  <2> SUFFICES ASSUME EspInv, Succeeds, op = "response", noise = 0, ~owed
               PROVE  res /\ first = e_return_value /\ first.id = nreq
    OBVIOUS
  <2>1. Waiting /\ e_is_return
    BY DEF Succeeds, LookEnds, Waiting, Waits
  <2>2. QED
    BY <2>1 DEF EspInv, Mine
<1>2. QED
  BY <1>1, EspInvAlways, PTL DEF ResponseIntact

-----------------------------------------------------------------------------
(* The framing: the parser of esp_process undoes what esp_write_byte does. *)

\* A sequence, of whatever: nothing is asked of the checksum.
IsSeq(s) == \E V : s \in Seq(V)

\* The first n elements of v are those of w.
Agree(v, w, n) == \A i \in 1 .. n : v[i] = w[i]

LEMMA SeqGrows ==
    ASSUME NEW s, IsSeq(s), NEW x, NEW t, t = Append(s, x), NEW n, n = Len(s)
    PROVE  IsSeq(t) /\ n \in Nat /\ Len(t) = n + 1 /\ t[n + 1] = x /\ Agree(t, s, n)
<1>1. PICK V : s \in Seq(V)
  BY DEF IsSeq
<1>2. s \in Seq(V \cup {x})
  BY <1>1
<1>3. Append(s, x) \in Seq(V \cup {x})
  BY <1>2
<1>4. IsSeq(t)
  BY <1>3 DEF IsSeq
<1>5. n \in Nat /\ Len(t) = n + 1 /\ t[n + 1] = x
  BY <1>2, <1>3
<1>6. Agree(t, s, n)
  BY <1>2, <1>3 DEF Agree
<1>. QED
  BY <1>4, <1>5, <1>6

LEMMA SeqShrinks ==
    ASSUME NEW s, IsSeq(s), s # <<>>
    PROVE  /\ IsSeq(Tail(s)) /\ Len(s) \in Nat /\ Len(s) >= 1 /\ Len(Tail(s)) = Len(s) - 1
           /\ Head(s) = s[1] /\ \A i \in 1 .. Len(s) - 1 : Tail(s)[i] = s[i + 1]
<1>1. PICK V : s \in Seq(V)
  BY DEF IsSeq
<1>2. Tail(s) \in Seq(V)
  BY <1>1
<1>. QED
  BY <1>1, <1>2 DEF IsSeq

LEMMA SeqJoins ==
    ASSUME NEW s, IsSeq(s), NEW x
    PROVE  s \o <<x>> = Append(s, x)
<1>1. PICK V : s \in Seq(V)
  BY DEF IsSeq
<1>2. s \in Seq(V \cup {x}) /\ <<x>> \in Seq(V \cup {x})
  BY <1>1
<1>. QED
  BY <1>2

LEMMA SeqJoinsTwo ==
    ASSUME NEW s, IsSeq(s), NEW x, NEW y, NEW t, t = s \o <<x, y>>
    PROVE  t = Append(Append(s, x), y)
<1>1. PICK V : s \in Seq(V)
  BY DEF IsSeq
<1>. DEFINE U == V \cup {x, y}
<1>2. s \in Seq(U) /\ x \in U /\ y \in U
  BY <1>1
<1>. HIDE DEF U
<1>3. <<x, y>> \in Seq(U)
  BY <1>2
<1>. QED
  BY <1>2, <1>3

LEMMA SeqEmpty == IsSeq(<<>>) /\ Len(<<>>) = 0
<1>1. <<>> \in Seq({})
  OBVIOUS
<1>. QED
  BY <1>1 DEF IsSeq

LEMMA SeqLen ==
    ASSUME NEW s, IsSeq(s)
    PROVE  Len(s) \in Nat /\ (Len(s) = 0 <=> s = <<>>)
<1>1. PICK V : s \in Seq(V)
  BY DEF IsSeq
<1>2. Len(s) \in Nat
  BY <1>1
<1>3. s # <<>> => Len(s) # 0
  BY <1>1
<1>4. s = <<>> => Len(s) = 0
  BY SeqEmpty
<1>. QED
  BY <1>2, <1>3, <1>4, Zenon

\* A sequence that agrees with the beginning of another is that beginning.
LEMMA SeqBegins ==
    ASSUME NEW s, IsSeq(s), NEW b, IsSeq(b), NEW m \in Nat, m <= Len(s), Len(b) = m,
           \A i \in 1 .. m : b[i] = s[i]
    PROVE  b = SubSeq(s, 1, m)
<1>1. PICK V, W : s \in Seq(V) /\ b \in Seq(W)
  BY DEF IsSeq
<1>2. SubSeq(s, 1, m) = [i \in 1 .. m |-> s[i]]
  BY <1>1
<1>3. b = [i \in 1 .. m |-> b[i]]
  BY <1>1
<1>. QED
  BY <1>2, <1>3

LEMMA Escapes ==
    /\ SLIP_START \in Markers /\ SLIP_END \in Markers /\ SLIP_REPL \in Markers
    /\ SLIP_START # SLIP_END /\ SLIP_START # SLIP_REPL /\ SLIP_END # SLIP_REPL
    /\ \A m \in Markers : SLIP_ESC(m) \notin Markers /\ SLIP_ESC(SLIP_ESC(m)) = m
  BY DEF Markers, SLIP_START, SLIP_END, SLIP_REPL, SLIP_ESC

\* The character x is on the line w from position a up to before position z.
Code(w, x, a, z) ==
    \/ x \notin Markers /\ z = a + 1 /\ w[a] = x
    \/ x \in Markers /\ z = a + 2 /\ w[a] = SLIP_REPL /\ w[a + 1] = SLIP_ESC(x)

\* The characters of s from the one after the k-th to the n-th are on the line,
\* the i-th at position p[i].
Codes(w, s, n, p, k) ==
    /\ p \in [Nat -> Int]
    /\ \A i \in k + 1 .. n : Code(w, s[i], p[i], p[i + 1])
    /\ \A i, j \in k + 1 .. n + 1 : i <= j => p[i] <= p[j]

\* A frame that has begun: anything, its start marker, its characters.
Begun(w, s, n, a) ==
    \E p : /\ Codes(w, s, n, p, 0) /\ p[n + 1] = a + 1
           /\ p[1] >= 2 /\ w[p[1] - 1] = SLIP_START

LEMMA CodeKept ==
    ASSUME NEW w, NEW v, NEW x, NEW a \in Int, NEW z \in Int, NEW n \in Nat,
           a >= 1, z <= n + 1, \A i \in 1 .. n : v[i] = w[i], Code(w, x, a, z)
    PROVE  Code(v, x, a, z)
<1>1. CASE x \notin Markers
  <2>1. z = a + 1 /\ w[a] = x
    BY <1>1 DEF Code
  <2>2. a \in 1 .. n
    BY <2>1
  <2>. QED
    BY <1>1, <2>1, <2>2 DEF Code
<1>2. CASE x \in Markers
  <2>1. z = a + 2 /\ w[a] = SLIP_REPL /\ w[a + 1] = SLIP_ESC(x)
    BY <1>2 DEF Code
  <2>2. a \in 1 .. n /\ a + 1 \in 1 .. n
    BY <2>1
  <2>. QED
    BY <1>2, <2>1, <2>2 DEF Code
<1>. QED
  BY <1>1, <1>2

LEMMA BegunGrows ==
    ASSUME NEW w, NEW s, NEW n \in Nat, NEW a \in Nat, Begun(w, s, n, a),
           NEW v, NEW t, NEW b, NEW c \in Nat,
           Agree(v, w, a), Agree(t, s, n), t[n + 1] = b,
           Code(v, b, a + 1, c + 1)
    PROVE  Begun(v, t, n + 1, c)
<1>1. PICK p : /\ Codes(w, s, n, p, 0) /\ p[n + 1] = a + 1
               /\ p[1] >= 2 /\ w[p[1] - 1] = SLIP_START
  BY DEF Begun
<1>2. /\ p \in [Nat -> Int]
      /\ \A i \in 1 .. n : Code(w, s[i], p[i], p[i + 1])
      /\ \A i, j \in 1 .. n + 1 : i <= j => p[i] <= p[j]
  BY <1>1 DEF Codes
<1>3. PICK q : q = [p EXCEPT ![n + 2] = c + 1]
  OBVIOUS
<1>4. /\ q \in [Nat -> Int] /\ q[n + 2] = c + 1
      /\ \A i \in Nat : i <= n + 1 => q[i] = p[i]
  BY <1>2, <1>3
<1>5. a + 1 <= c + 1
  BY DEF Code
<1>6. \A i \in 1 .. n : p[i] \in Int /\ p[i + 1] \in Int /\ p[i] >= 1 /\ p[i + 1] <= a + 1
  BY <1>1, <1>2
<1>7. ASSUME NEW i \in 1 .. n + 1
      PROVE  Code(v, t[i], q[i], q[i + 1])
  <2>1. CASE i <= n
    <3>1. i \in 1 .. n /\ q[i] = p[i] /\ q[i + 1] = p[i + 1] /\ t[i] = s[i]
      BY <2>1, <1>4 DEF Agree
    <3>2. Code(w, s[i], p[i], p[i + 1])
      BY <3>1, <1>2
    <3>3. Code(v, s[i], p[i], p[i + 1])
      BY <3>1, <3>2, <1>6, CodeKept DEF Agree
    <3>. QED
      BY <3>1, <3>3
  <2>2. CASE i = n + 1
    <3>1. q[i] = a + 1 /\ q[i + 1] = c + 1 /\ t[i] = b
      BY <2>2, <1>1, <1>4
    <3>. QED
      BY <3>1
  <2>. QED
    BY <2>1, <2>2
<1>8. ASSUME NEW i \in 1 .. n + 2, NEW j \in 1 .. n + 2, i <= j
      PROVE  q[i] <= q[j]
  <2>1. CASE j <= n + 1
    BY <2>1, <1>8, <1>2, <1>4
  <2>2. CASE j = n + 2 /\ i <= n + 1
    <3>1. q[i] = p[i] /\ p[i] <= p[n + 1] /\ p[i] \in Int
      BY <2>2, <1>2, <1>4
    <3>. QED
      BY <2>2, <3>1, <1>1, <1>4, <1>5
  <2>3. CASE j = n + 2 /\ i = n + 2
    BY <2>3, <1>4
  <2>. QED
    BY <2>1, <2>2, <2>3
<1>9. Codes(v, t, n + 1, q, 0)
  <2>1. n + 1 + 1 = n + 2 /\ 0 + 1 = 1
    OBVIOUS
  <2>. QED
    BY <1>4, <1>7, <1>8, <2>1 DEF Codes
<1>10. q[1] = p[1]
  BY <1>4
<1>11. q[1] >= 2 /\ v[q[1] - 1] = SLIP_START
  <2>1. p[1] \in Int /\ p[1] - 1 \in 1 .. a
    <3>1. p[1] \in Int /\ p[1] <= p[n + 1]
      BY <1>2
    <3>. QED
      BY <3>1, <1>1
  <2>. QED
    BY <2>1, <1>1, <1>10 DEF Agree
<1>12. q[n + 1 + 1] = c + 1
  BY <1>4
<1>. QED
  BY <1>9, <1>11, <1>12 DEF Begun

\* What is left of a frame that has been sent: the characters after the k-th
\* and the end marker.
Rest(w, s, n, a, p, k) ==
    Codes(w, s, n, p, k) /\ p[n + 1] = a /\ w[a] = SLIP_END

\* The line v is the line w without its first byte.
Shifted(v, w, a) == \A i \in 1 .. a - 1 : v[i] = w[i + 1]

LEMMA RestMoves ==
    ASSUME NEW w, NEW s, NEW n \in Nat, NEW a \in Nat, NEW p, NEW k \in Nat, k <= n,
           Rest(w, s, n, a, p, k), p[k + 1] >= 2,
           NEW v, Shifted(v, w, a)
    PROVE  \E q : Rest(v, s, n, a - 1, q, k) /\ q[k + 1] = p[k + 1] - 1
<1>1. /\ p \in [Nat -> Int] /\ p[n + 1] = a /\ w[a] = SLIP_END
      /\ \A i \in k + 1 .. n : Code(w, s[i], p[i], p[i + 1])
      /\ \A i, j \in k + 1 .. n + 1 : i <= j => p[i] <= p[j]
  BY DEF Rest, Codes
<1>2. PICK q : q = [i \in Nat |-> p[i] - 1]
  OBVIOUS
<1>3. q \in [Nat -> Int] /\ \A i \in Nat : q[i] = p[i] - 1 /\ p[i] \in Int
  BY <1>1, <1>2
<1>4. \A i \in k + 1 .. n : p[i] >= 2 /\ p[i + 1] <= a
  <2>1. ASSUME NEW i \in k + 1 .. n
        PROVE  p[k + 1] <= p[i] /\ p[i + 1] <= p[n + 1]
    BY <1>1
  <2>2. \A i \in k + 1 .. n : i \in Nat /\ i + 1 \in Nat
    OBVIOUS
  <2>3. k + 1 \in Nat
    OBVIOUS
  <2>. QED
    BY <2>1, <2>2, <2>3, <1>1, <1>3
<1>5. ASSUME NEW i \in k + 1 .. n
      PROVE  Code(v, s[i], q[i], q[i + 1])
  <2>0. i \in Nat /\ i + 1 \in Nat
    OBVIOUS
  <2>1. PICK y \in Int, z \in Int : y = p[i] /\ z = p[i + 1]
    BY <2>0, <1>3
  <2>2. Code(w, s[i], y, z) /\ y >= 2 /\ z <= a /\ q[i] = y - 1 /\ q[i + 1] = z - 1
    BY <2>0, <2>1, <1>1, <1>3, <1>4
  <2>3. CASE s[i] \notin Markers
    <3>1. z = y + 1 /\ w[y] = s[i]
      BY <2>2, <2>3 DEF Code
    <3>2. y - 1 \in 1 .. a - 1 /\ y - 1 + 1 = y
      BY <2>2, <3>1
    <3>3. v[y - 1] = w[y]
      BY <3>2 DEF Shifted
    <3>. QED
      BY <2>2, <2>3, <3>1, <3>3 DEF Code
  <2>4. CASE s[i] \in Markers
    <3>1. z = y + 2 /\ w[y] = SLIP_REPL /\ w[y + 1] = SLIP_ESC(s[i])
      BY <2>2, <2>4 DEF Code
    <3>2. y - 1 \in 1 .. a - 1 /\ y \in 1 .. a - 1 /\ y - 1 + 1 = y
      BY <2>2, <3>1
    <3>3. v[y - 1] = w[y] /\ v[y] = w[y + 1]
      BY <3>2 DEF Shifted
    <3>. QED
      BY <2>2, <2>4, <3>1, <3>2, <3>3 DEF Code
  <2>. QED
    BY <2>3, <2>4
<1>6. ASSUME NEW i \in k + 1 .. n + 1, NEW j \in k + 1 .. n + 1, i <= j
      PROVE  q[i] <= q[j]
  <2>1. p[i] <= p[j] /\ i \in Nat /\ j \in Nat
    BY <1>6, <1>1
  <2>. QED
    BY <2>1, <1>3
<1>7. q[n + 1] = a - 1 /\ q[k + 1] = p[k + 1] - 1
  BY <1>1, <1>3
<1>8. v[a - 1] = SLIP_END
  <2>1. p[k + 1] <= p[n + 1]
    BY <1>1
  <2>2. a - 1 \in 1 .. a - 1 /\ a - 1 + 1 = a
    <3>1. k + 1 \in Nat
      OBVIOUS
    <3>. QED
      BY <2>1, <3>1, <1>1, <1>3
  <2>. QED
    BY <2>2, <1>1 DEF Shifted
<1>9. Codes(v, s, n, q, k)
  BY <1>3, <1>5, <1>6 DEF Codes
<1>. QED
  BY <1>3, <1>7, <1>8, <1>9 DEF Rest

LEMMA RestDrops ==
    ASSUME NEW w, NEW s, NEW n \in Nat, NEW a \in Nat, NEW p, NEW k \in Nat, k < n,
           Rest(w, s, n, a, p, k)
    PROVE  Rest(w, s, n, a, p, k + 1) /\ Code(w, s[k + 1], p[k + 1], p[k + 2])
<1>1. /\ p \in [Nat -> Int] /\ p[n + 1] = a /\ w[a] = SLIP_END
      /\ \A i \in k + 1 .. n : Code(w, s[i], p[i], p[i + 1])
      /\ \A i, j \in k + 1 .. n + 1 : i <= j => p[i] <= p[j]
  BY DEF Rest, Codes
<1>2. k + 1 \in k + 1 .. n /\ k + 1 + 1 = k + 2
  OBVIOUS
<1>3. /\ \A i \in k + 1 + 1 .. n : i \in k + 1 .. n
      /\ \A i \in k + 1 + 1 .. n + 1 : i \in k + 1 .. n + 1
  OBVIOUS
<1>4. Codes(w, s, n, p, k + 1)
  BY <1>1, <1>3, Zenon DEF Codes
<1>5. Code(w, s[k + 1], p[k + 1], p[k + 1 + 1])
  BY <1>1, <1>2, Zenon
<1>6. Code(w, s[k + 1], p[k + 1], p[k + 2])
  BY <1>5, <1>2, Zenon
<1>7. Rest(w, s, n, a, p, k + 1)
  BY <1>1, <1>4, Zenon DEF Rest
<1>. QED
  BY <1>6, <1>7

\* What the parser holds after k characters of s.
Held(h, s, k) ==
    /\ IsSeq(h)
    /\ IF k <= BufSize THEN Len(h) = k ELSE Len(h) = BufSize
    /\ \A i \in 1 .. Len(h) : h[i] = s[i]

Stored(h, x) == IF Len(h) < BufSize THEN Append(h, x) ELSE h

LEMMA HeldGrows ==
    ASSUME NEW h, NEW s, NEW k \in Nat, Held(h, s, k)
    PROVE  Held(Stored(h, s[k + 1]), s, k + 1)
<1>1. PICK m \in Nat : m = Len(h)
  BY SeqLen DEF Held
<1>2. /\ IsSeq(h) /\ (IF k <= BufSize THEN m = k ELSE m = BufSize)
      /\ \A i \in 1 .. m : h[i] = s[i]
  BY <1>1 DEF Held
<1>3. BufSize \in Nat
  BY SlipAssumption
<1>4. CASE m < BufSize
  <2>1. m = k /\ k + 1 <= BufSize
    BY <1>2, <1>3, <1>4
  <2>2. PICK x, g : x = s[k + 1] /\ g = Append(h, x)
    OBVIOUS
  <2>3. IsSeq(g) /\ Len(g) = m + 1 /\ g[m + 1] = s[k + 1] /\ Agree(g, h, m)
    <3>1. IsSeq(h)
      BY <1>2, Zenon
    <3>. QED
      <4>1. g = Append(h, x) /\ m = Len(h)
        BY <1>1, <2>2, Zenon
      <4>2. IsSeq(g) /\ Len(g) = m + 1 /\ g[m + 1] = x /\ Agree(g, h, m)
        BY <3>1, <4>1, SeqGrows, Zenon
      <4>. QED
        BY <2>2, <4>2, Zenon
  <2>4. \A i \in 1 .. m + 1 : i \in 1 .. m \/ i = m + 1
    OBVIOUS
  <2>5. \A i \in 1 .. m + 1 : g[i] = s[i]
    BY <1>2, <2>1, <2>3, <2>4, Zenon DEF Agree
  <2>6. Held(g, s, k + 1)
    BY <2>1, <2>3, <2>5, Zenon DEF Held
  <2>7. Stored(h, s[k + 1]) = g
    BY <1>1, <1>4, <2>2, Zenon DEF Stored
  <2>. QED
    BY <2>6, <2>7, Zenon
<1>5. CASE ~(m < BufSize)
  <2>1. m = BufSize /\ (k + 1 <= BufSize => m = k + 1) /\ ~(k + 1 <= BufSize)
    BY <1>2, <1>3, <1>5
  <2>2. Stored(h, s[k + 1]) = h
    BY <1>1, <1>5, Zenon DEF Stored
  <2>3. Held(h, s, k + 1)
    BY <1>1, <1>2, <2>1, Zenon DEF Held
  <2>. QED
    BY <2>2, <2>3, Zenon
<1>. QED
  BY <1>4, <1>5

\* The parser has yet to meet the start marker of the frame.
Ahead(w, s) ==
    \E p : /\ Rest(w, s, Len(s), Len(w), p, 0)
           /\ p[1] >= 2 /\ w[p[1] - 1] = SLIP_START

\* The parser has taken k characters.
Between(w, s, h, esc) ==
    /\ esc = FALSE
    /\ \E k, p : /\ k \in Nat /\ k <= Len(s) /\ Held(h, s, k)
                         /\ Rest(w, s, Len(s), Len(w), p, k) /\ p[k + 1] = 1

\* The parser has taken k characters and the escape of the next one.
Amid(w, s, h, esc) ==
    /\ esc = TRUE
    /\ \E k, p : /\ k \in Nat /\ k < Len(s) /\ Held(h, s, k) /\ s[k + 1] \in Markers
                         /\ w[1] = SLIP_ESC(s[k + 1])
                         /\ Rest(w, s, Len(s), Len(w), p, k + 1) /\ p[k + 2] = 2

\* The parser has taken the end marker.
Over(w, s, d) == w = <<>> /\ Held(d, s, Len(s))

\* The step of the parser, in terms of what it changes.
Parsed(w, h, esc, d, w2, h2, esc2, d2) ==
    /\ w # <<>> /\ w2 = Tail(w)
    /\ \/ Head(w) = SLIP_REPL /\ esc2 = TRUE /\ h2 = h /\ d2 = d
       \/ Head(w) = SLIP_START /\ esc2 = FALSE /\ h2 = <<>> /\ d2 = d
       \/ Head(w) = SLIP_END /\ esc2 = esc /\ h2 = h /\ d2 = h
       \/ /\ Head(w) \notin Markers /\ esc2 = FALSE /\ d2 = d
          /\ h2 = Stored(h, IF esc THEN SLIP_ESC(Head(w)) ELSE Head(w))

LEMMA ParsedFirst ==
    ASSUME NEW w, NEW h, NEW esc, NEW d, NEW w2, NEW h2, NEW esc2, NEW d2, IsSeq(w),
           Parsed(w, h, esc, d, w2, h2, esc2, d2)
    PROVE  \E a \in Nat : /\ a >= 1 /\ Len(w) = a /\ Head(w) = w[1]
                          /\ IsSeq(w2) /\ Len(w2) = a - 1
                          /\ Shifted(w2, w, a)
<1>1. w # <<>> /\ w2 = Tail(w)
  BY DEF Parsed
<1>2. PICK a \in Nat : a = Len(w)
  BY SeqLen
<1>3. /\ IsSeq(Tail(w)) /\ Len(w) >= 1 /\ Len(Tail(w)) = Len(w) - 1
      /\ Head(w) = w[1] /\ \A i \in 1 .. Len(w) - 1 : Tail(w)[i] = w[i + 1]
  BY <1>1, SeqShrinks, Zenon
<1>. QED
  BY <1>1, <1>2, <1>3, Zenon DEF Shifted

LEMMA HeldNothing == ASSUME NEW s PROVE Held(<<>>, s, 0)
<1>1. BufSize \in Nat /\ 0 <= BufSize
  BY SlipAssumption
<1>2. \A i \in 1 .. 0 : FALSE
  OBVIOUS
<1>. QED
  BY <1>1, <1>2, SeqEmpty, Zenon DEF Held

LEMMA AheadParsed ==
    ASSUME NEW w, NEW h, NEW esc, NEW d, NEW w2, NEW h2, NEW esc2, NEW d2, IsSeq(w),
           Parsed(w, h, esc, d, w2, h2, esc2, d2), NEW s, IsSeq(s), Ahead(w, s)
    PROVE  Ahead(w2, s) \/ Between(w2, s, h2, esc2)
<1>1. PICK a \in Nat : /\ a >= 1 /\ Len(w) = a /\ Head(w) = w[1]
                       /\ IsSeq(w2) /\ Len(w2) = a - 1
                       /\ Shifted(w2, w, a)
  BY ParsedFirst
<1>2. PICK n \in Nat : n = Len(s)
  BY SeqLen
<1>3. PICK p : /\ Rest(w, s, n, a, p, 0) /\ p[1] >= 2 /\ w[p[1] - 1] = SLIP_START
  BY <1>1, <1>2, Zenon DEF Ahead
<1>4. 0 \in Nat /\ 0 <= n /\ 0 + 1 = 1
  OBVIOUS
<1>5. p \in [Nat -> Int] /\ p[n + 1] = a /\ p[1] <= a
  <2>1. p \in [Nat -> Int] /\ p[n + 1] = a
    BY <1>3 DEF Rest, Codes
  <2>2. p[1] <= p[n + 1]
    BY <1>3 DEF Rest, Codes
  <2>. QED
    BY <2>1, <2>2
<1>6. PICK q : Rest(w2, s, n, a - 1, q, 0) /\ q[1] = p[1] - 1
  <2>1. p[0 + 1] >= 2
    BY <1>3, <1>4, Zenon
  <2>2. Rest(w, s, n, a, p, 0) /\ Shifted(w2, w, a) /\ 0 \in Nat /\ 0 <= n
    BY <1>1, <1>3, <1>4, Zenon
  <2>3. \E q : Rest(w2, s, n, a - 1, q, 0) /\ q[0 + 1] = p[0 + 1] - 1
    BY <2>1, <2>2, RestMoves, SMTT(20)
  <2>. QED
    BY <1>4, <2>3, Zenon
<1>7. CASE p[1] = 2
  <2>1. w[1] = SLIP_START /\ q[1] = 1
    BY <1>3, <1>6, <1>7
  <2>2. Head(w) = SLIP_START
    BY <1>1, <2>1, Zenon
  <2>3. esc2 = FALSE /\ h2 = <<>>
    BY <2>2, Escapes, Zenon DEF Parsed
  <2>4. Held(h2, s, 0)
    BY <2>3, HeldNothing, Zenon
  <2>5. q[0 + 1] = 1
    BY <2>1, <1>4, Zenon
  <2>. QED
    BY <1>1, <1>2, <1>4, <1>6, <2>3, <2>4, <2>5, Zenon DEF Between
<1>8. CASE p[1] # 2
  <2>1. PICK x \in Int : x = p[1]
    BY <1>5
  <2>2. x - 1 >= 2 /\ x - 1 - 1 \in 1 .. a - 1 /\ x - 1 - 1 + 1 = x - 1
    BY <2>1, <1>3, <1>5, <1>8
  <2>3. w2[x - 1 - 1] = SLIP_START
    BY <1>1, <1>3, <2>1, <2>2, Zenon DEF Shifted
  <2>4. q[1] >= 2 /\ w2[q[1] - 1] = SLIP_START
    BY <1>6, <2>1, <2>2, <2>3, Zenon
  <2>. QED
    BY <1>1, <1>2, <1>6, <2>4, Zenon DEF Ahead
<1>. QED
  BY <1>7, <1>8, Zenon

LEMMA BetweenParsed ==
    ASSUME NEW w, NEW h, NEW esc, NEW d, NEW w2, NEW h2, NEW esc2, NEW d2, IsSeq(w),
           Parsed(w, h, esc, d, w2, h2, esc2, d2), NEW s, IsSeq(s), Between(w, s, h, esc)
    PROVE  Between(w2, s, h2, esc2) \/ Amid(w2, s, h2, esc2) \/ Over(w2, s, d2)
<1>1. PICK a \in Nat : /\ a >= 1 /\ Len(w) = a /\ Head(w) = w[1]
                       /\ IsSeq(w2) /\ Len(w2) = a - 1
                       /\ Shifted(w2, w, a)
  BY ParsedFirst
<1>2. PICK n \in Nat : n = Len(s)
  BY SeqLen
<1>3. esc = FALSE
  BY DEF Between
<1>4. PICK k, p : /\ k \in Nat /\ k <= n /\ Held(h, s, k) /\ Rest(w, s, n, a, p, k) /\ p[k + 1] = 1
  BY <1>1, <1>2, Zenon DEF Between
<1>5. CASE k = n
  <2>1. w[1] = SLIP_END /\ a = 1
    BY <1>4, <1>5 DEF Rest
  <2>2. Head(w) = SLIP_END
    BY <1>1, <2>1, Zenon
  <2>3. d2 = h
    BY <2>2, Escapes, Zenon DEF Parsed
  <2>4. a - 1 = 0
    BY <2>1
  <2>5. w2 = <<>>
    BY <1>1, <2>4, SeqLen, Zenon
  <2>. QED
    BY <1>2, <1>4, <1>5, <2>3, <2>5, Zenon DEF Over
<1>6. CASE k # n
  <2>0. k < n /\ k + 1 \in Nat /\ k + 1 <= n /\ k + 1 + 1 = k + 2
    BY <1>4, <1>6
  <2>1. Rest(w, s, n, a, p, k + 1) /\ Code(w, s[k + 1], p[k + 1], p[k + 2])
    BY <1>4, <2>0, RestDrops, Zenon
  <2>2. PICK x, z : x = s[k + 1] /\ z = p[k + 2]
    OBVIOUS
  <2>3. Code(w, x, 1, z)
    BY <1>4, <2>1, <2>2, Zenon
  <2>4. z >= 2
    BY <2>3 DEF Code
  <2>5. PICK q : Rest(w2, s, n, a - 1, q, k + 1) /\ q[k + 2] = z - 1
    <3>1. p[k + 1 + 1] >= 2
      BY <2>0, <2>2, <2>4, Zenon
    <3>2. Rest(w, s, n, a, p, k + 1) /\ Shifted(w2, w, a) /\ k + 1 \in Nat /\ k + 1 <= n
      BY <1>1, <2>0, <2>1, Zenon
    <3>3. \E q : Rest(w2, s, n, a - 1, q, k + 1) /\ q[k + 1 + 1] = p[k + 1 + 1] - 1
      BY <3>1, <3>2, RestMoves, SMTT(20)
    <3>. QED
      BY <2>0, <2>2, <3>3, Zenon
  <2>6. CASE x \notin Markers
    <3>1. w[1] = x /\ z - 1 = 1
      BY <2>3, <2>6 DEF Code
    <3>2. Head(w) = x
      BY <1>1, <3>1, Zenon
    <3>3. Head(w) \notin Markers
      BY <3>2, <2>6, Zenon
    <3>4. esc2 = FALSE /\ h2 = Stored(h, x)
      BY <3>2, <3>3, <1>3, Escapes, Zenon DEF Parsed
    <3>5. Held(h2, s, k + 1)
      BY <3>4, <2>2, <1>4, HeldGrows, Zenon
    <3>6. q[k + 1 + 1] = 1
      BY <2>0, <2>5, <3>1, Zenon
    <3>. QED
      BY <1>1, <1>2, <2>0, <2>5, <3>4, <3>5, <3>6, Zenon DEF Between
  <2>7. CASE x \in Markers
    <3>1. w[1] = SLIP_REPL /\ w[1 + 1] = SLIP_ESC(x) /\ z = 3
      BY <2>3, <2>7 DEF Code
    <3>2. z - 1 = 2 /\ w[2] = SLIP_ESC(x)
      BY <3>1
    <3>3. Head(w) = SLIP_REPL
      BY <1>1, <3>1, Zenon
    <3>4. esc2 = TRUE /\ h2 = h
      BY <3>3, Escapes, Zenon DEF Parsed
    <3>5. a >= 2
      <4>1. p \in [Nat -> Int] /\ p[n + 1] = a /\ p[k + 2] <= p[n + 1]
        BY <2>0, <2>1 DEF Rest, Codes
      <4>. QED
        BY <4>1, <2>2, <3>1
    <3>6. 1 \in 1 .. a - 1 /\ 1 + 1 = 2
      BY <3>5
    <3>7. w2[1] = SLIP_ESC(x)
      BY <1>1, <3>2, <3>6, Zenon DEF Shifted
    <3>8. q[k + 2] = 2
      BY <2>5, <3>2, Zenon
    <3>. QED
      BY <1>1, <1>2, <1>4, <2>0, <2>2, <2>5, <2>7, <3>4, <3>7, <3>8, Zenon DEF Amid
  <2>. QED
    BY <2>6, <2>7, Zenon
<1>. QED
  BY <1>5, <1>6, Zenon

LEMMA AmidParsed ==
    ASSUME NEW w, NEW h, NEW esc, NEW d, NEW w2, NEW h2, NEW esc2, NEW d2, IsSeq(w),
           Parsed(w, h, esc, d, w2, h2, esc2, d2), NEW s, IsSeq(s), Amid(w, s, h, esc)
    PROVE  Between(w2, s, h2, esc2)
<1>1. PICK a \in Nat : /\ a >= 1 /\ Len(w) = a /\ Head(w) = w[1]
                       /\ IsSeq(w2) /\ Len(w2) = a - 1
                       /\ Shifted(w2, w, a)
  BY ParsedFirst
<1>2. PICK n \in Nat : n = Len(s)
  BY SeqLen
<1>3. esc = TRUE
  BY DEF Amid
<1>4. PICK k, p : /\ k \in Nat /\ k < n /\ Held(h, s, k) /\ s[k + 1] \in Markers
                          /\ w[1] = SLIP_ESC(s[k + 1])
                          /\ Rest(w, s, n, a, p, k + 1) /\ p[k + 2] = 2
  BY <1>1, <1>2, Zenon DEF Amid
<1>5. k + 1 \in Nat /\ k + 1 <= n /\ k + 1 + 1 = k + 2
  BY <1>4
<1>6. Head(w) \notin Markers /\ SLIP_ESC(Head(w)) = s[k + 1]
  BY <1>1, <1>4, Escapes, Zenon
<1>7. esc2 = FALSE /\ h2 = Stored(h, s[k + 1])
  BY <1>3, <1>6, Escapes, Zenon DEF Parsed
<1>8. Held(h2, s, k + 1)
  BY <1>4, <1>7, HeldGrows, Zenon
<1>9. PICK q : Rest(w2, s, n, a - 1, q, k + 1) /\ q[k + 1 + 1] = 1
  <2>1. p[k + 1 + 1] >= 2 /\ p[k + 1 + 1] - 1 = 1
    BY <1>4, <1>5
  <2>2. Rest(w, s, n, a, p, k + 1) /\ Shifted(w2, w, a) /\ k + 1 \in Nat /\ k + 1 <= n
    BY <1>1, <1>4, <1>5, Zenon
  <2>3. \E q : Rest(w2, s, n, a - 1, q, k + 1) /\ q[k + 1 + 1] = p[k + 1 + 1] - 1
    BY <2>1, <2>2, RestMoves, SMTT(20)
  <2>. QED
    BY <2>1, <2>3, Zenon
<1>. QED
  BY <1>1, <1>2, <1>5, <1>7, <1>8, <1>9, Zenon DEF Between

\* A byte written with esp_write_byte carries on the frame.
LEMMA BegunWrites ==
    ASSUME NEW w, NEW s, IsSeq(w), IsSeq(s), Begun(w, s, Len(s), Len(w)), NEW b
    PROVE  /\ IsSeq(w \o Escaped(b)) /\ IsSeq(Append(s, b))
           /\ Begun(w \o Escaped(b), Append(s, b), Len(Append(s, b)), Len(w \o Escaped(b)))
<1>1. PICK n \in Nat, a \in Nat : n = Len(s) /\ a = Len(w)
  BY SeqLen
<1>2. PICK t : t = Append(s, b)
  OBVIOUS
<1>3. IsSeq(t) /\ Len(t) = n + 1 /\ t[n + 1] = b /\ Agree(t, s, n)
  BY <1>1, <1>2, SeqGrows, Zenon
<1>4. /\ Begun(w, s, n, a) /\ t[n + 1] = b /\ Agree(t, s, n)
  BY <1>1, <1>3, Zenon
<1>5. PICK v : v = w \o Escaped(b)
  OBVIOUS
<1>6. CASE b \notin Markers
  <2>1. v = Append(w, b)
    BY <1>5, <1>6, SeqJoins, Zenon DEF Escaped
  <2>2. IsSeq(v) /\ Len(v) = a + 1 /\ v[a + 1] = b /\ Agree(v, w, a)
    BY <1>1, <2>1, SeqGrows, Zenon
  <2>3. Code(v, b, a + 1, a + 1 + 1)
    BY <1>6, <2>2, Zenon DEF Code
  <2>4. Code(v, b, a + 1, a + 1 + 1) /\ Agree(v, w, a)
    BY <2>2, <2>3, Zenon
  <2>5. Begun(v, t, n + 1, a + 1)
    <3>1. PICK c \in Nat : c = a + 1
      OBVIOUS
    <3>2. Code(v, b, a + 1, c + 1)
      BY <2>4, <3>1, Zenon
    <3>3. Begun(v, t, n + 1, c)
      BY <1>4, <2>4, <3>2, BegunGrows, Zenon
    <3>. QED
      BY <3>1, <3>3, Zenon
  <2>. QED
    BY <1>2, <1>3, <1>5, <2>2, <2>5, Zenon
<1>7. CASE b \in Markers
  <2>1. PICK u, e, c : u = Append(w, SLIP_REPL) /\ e = SLIP_ESC(b) /\ c = a + 1
    OBVIOUS
  <2>2. v = Append(u, e)
    <3>1. Escaped(b) = <<SLIP_REPL, e>>
      BY <1>7, <2>1, Zenon DEF Escaped
    <3>2. w \o <<SLIP_REPL, e>> = Append(u, e)
      BY <2>1, SeqJoinsTwo
    <3>. QED
      BY <1>5, <3>1, <3>2, Zenon
  <2>3. IsSeq(u) /\ Len(u) = c /\ u[c] = SLIP_REPL /\ Agree(u, w, a)
    <3>1. IsSeq(u) /\ Len(u) = a + 1 /\ u[a + 1] = SLIP_REPL /\ Agree(u, w, a)
      <4>1. u = Append(w, SLIP_REPL)
        BY <2>1, Zenon
      <4>. QED
        BY <1>1, <4>1, SeqGrows, Zenon
    <3>. QED
      BY <2>1, <3>1, Zenon
  <2>4. IsSeq(v) /\ Len(v) = c + 1 /\ v[c + 1] = e /\ Agree(v, u, c)
    BY <2>2, <2>3, SeqGrows, Zenon
  <2>5. /\ c \in Nat /\ c + 1 \in Nat /\ c + 1 + 1 = c + 2 /\ c \in 1 .. c
        /\ \A i \in 1 .. a : i \in 1 .. c
    BY <2>1
  <2>6. v[c] = SLIP_REPL /\ Agree(v, w, a)
    BY <2>3, <2>4, <2>5, Zenon DEF Agree
  <2>7. Code(v, b, c, c + 1 + 1)
    BY <1>7, <2>1, <2>4, <2>5, <2>6, Zenon DEF Code
  <2>8. Code(v, b, a + 1, c + 1 + 1)
    BY <2>1, <2>7, Zenon
  <2>9. Begun(v, t, n + 1, c + 1)
    <3>1. PICK y \in Nat : y = c + 1
      BY <2>5
    <3>2. Code(v, b, a + 1, y + 1) /\ Agree(v, w, a)
      BY <2>6, <2>8, <3>1, Zenon
    <3>3. Begun(v, t, n + 1, y)
      BY <1>4, <3>2, BegunGrows, Zenon
    <3>. QED
      BY <3>1, <3>3, Zenon
  <2>. QED
    BY <1>2, <1>3, <1>5, <2>4, <2>9, Zenon
<1>. QED
  BY <1>6, <1>7, Zenon

\* A start marker, on whatever line, begins a frame.
LEMMA BegunStarts ==
    ASSUME NEW w, IsSeq(w)
    PROVE  /\ IsSeq(Append(w, SLIP_START))
           /\ Begun(Append(w, SLIP_START), <<>>, Len(<<>>), Len(Append(w, SLIP_START)))
<1>1. PICK a \in Nat : a = Len(w)
  BY SeqLen
<1>2. PICK v : v = Append(w, SLIP_START)
  OBVIOUS
<1>3. IsSeq(v) /\ Len(v) = a + 1 /\ v[a + 1] = SLIP_START
  BY <1>1, <1>2, SeqGrows, Zenon
<1>4. PICK p : p = [i \in Nat |-> a + 2]
  OBVIOUS
<1>5. p \in [Nat -> Int] /\ \A i \in Nat : p[i] = a + 2
  BY <1>4
<1>6. Codes(v, <<>>, 0, p, 0)
  BY <1>5 DEF Codes
<1>7. p[0 + 1] = a + 1 + 1 /\ p[1] >= 2 /\ p[1] - 1 = a + 1
  BY <1>5
<1>8. Begun(v, <<>>, 0, a + 1)
  BY <1>3, <1>6, <1>7, Zenon DEF Begun
<1>. QED
  BY <1>2, <1>3, <1>8, SeqEmpty, Zenon

\* The end marker completes it.
LEMMA BegunEnds ==
    ASSUME NEW w, NEW s, IsSeq(w), IsSeq(s), Begun(w, s, Len(s), Len(w))
    PROVE  IsSeq(w \o <<SLIP_END>>) /\ Ahead(w \o <<SLIP_END>>, s)
<1>1. PICK n \in Nat, a \in Nat : n = Len(s) /\ a = Len(w)
  BY SeqLen
<1>2. PICK v : v = w \o <<SLIP_END>>
  OBVIOUS
<1>3. v = Append(w, SLIP_END)
  BY <1>2, SeqJoins, Zenon
<1>4. IsSeq(v) /\ Len(v) = a + 1 /\ v[a + 1] = SLIP_END /\ Agree(v, w, a)
  BY <1>1, <1>3, SeqGrows, Zenon
<1>5. Begun(w, s, n, a)
  BY <1>1, Zenon
<1>6. PICK p : /\ Codes(w, s, n, p, 0) /\ p[n + 1] = a + 1
               /\ p[1] >= 2 /\ w[p[1] - 1] = SLIP_START
  BY <1>5 DEF Begun
<1>7. /\ p \in [Nat -> Int]
      /\ \A i \in 1 .. n : Code(w, s[i], p[i], p[i + 1])
      /\ \A i, j \in 1 .. n + 1 : i <= j => p[i] <= p[j]
  BY <1>6 DEF Codes
<1>8. \A i \in 1 .. n : p[i] \in Int /\ p[i + 1] \in Int /\ p[i] >= 1 /\ p[i + 1] <= a + 1
  <2>1. ASSUME NEW i \in 1 .. n
        PROVE  p[i] \in Int /\ p[i + 1] \in Int /\ p[1] <= p[i] /\ p[i + 1] <= p[n + 1]
    BY <1>7
  <2>2. p[1] \in Int
    BY <1>7
  <2>3. p[1] >= 2 /\ p[n + 1] = a + 1
    BY <1>6, Zenon
  <2>4. \A x, y \in Int : x >= 2 /\ x <= y => y >= 1
    OBVIOUS
  <2>. QED
    BY <2>1, <2>2, <2>3, <2>4, Zenon
<1>9. ASSUME NEW i \in 1 .. n
      PROVE  Code(v, s[i], p[i], p[i + 1])
  <2>1. \A j \in 1 .. a : v[j] = w[j]
    BY <1>4, Zenon DEF Agree
  <2>. QED
    BY <1>7, <1>8, <2>1, CodeKept
<1>10. Codes(v, s, n, p, 0)
  BY <1>7, <1>9 DEF Codes
<1>11. v[p[1] - 1] = SLIP_START
  <2>1. p[1] \in Int /\ p[1] <= p[n + 1]
    BY <1>7
  <2>2. p[1] - 1 \in 1 .. a
    BY <2>1, <1>6
  <2>. QED
    BY <2>2, <1>4, <1>6, Zenon DEF Agree
<1>12. Rest(v, s, n, a + 1, p, 0)
  BY <1>4, <1>6, <1>10, Zenon DEF Rest
<1>. QED
  BY <1>1, <1>2, <1>4, <1>6, <1>11, <1>12, Zenon DEF Ahead

\* The inductive invariant.
SlipInv ==
    /\ phase # "done" => ~damaged
    /\ ~damaged =>
        /\ IsSeq(wire) /\ IsSeq(payload)
        /\ phase = "frame" => Begun(wire, payload, Len(payload), Len(wire))
        /\ phase = "done" => \/ Ahead(wire, payload)
                             \/ Between(wire, payload, buf, isEsc)
                             \/ Amid(wire, payload, buf, isEsc)
                             \/ Over(wire, payload, done)

LEMMA SlipInitInv == SlipInit => SlipInv
  BY SeqEmpty DEF SlipInit, SlipInv

LEMMA SlipSends ==
    ASSUME SlipInv, slip_request_start \/ (\E b \in Byte : esp_write_crc(b)) \/ esp_request_end
    PROVE  SlipInv'
<1>1. ASSUME slip_request_start
      PROVE  SlipInv'
  <2>1. phase = "before" /\ phase' = "frame" /\ payload' = <<>> /\ damaged' = FALSE
        /\ wire' = Append(wire, SLIP_START)
    BY <1>1 DEF slip_request_start
  <2>2. IsSeq(wire)
    BY <2>1 DEF SlipInv
  <2>3. IsSeq(wire') /\ Begun(wire', <<>>, Len(<<>>), Len(wire'))
    BY <2>1, <2>2, BegunStarts, Zenon
  <2>4. IsSeq(payload') /\ Begun(wire', payload', Len(payload'), Len(wire'))
    BY <2>1, <2>3, SeqEmpty, Zenon
  <2>5. phase' # "done"
    BY <2>1
  <2>. QED
    BY <2>1, <2>3, <2>4, <2>5, Zenon DEF SlipInv
<1>2. ASSUME NEW b \in Byte, esp_write_crc(b)
      PROVE  SlipInv'
  <2>1. phase = "frame" /\ phase' = phase /\ damaged' = damaged
        /\ payload' = Append(payload, b) /\ wire' = wire \o Escaped(b)
    BY <1>2 DEF esp_write_crc
  <2>2. phase # "done" /\ phase' # "done"
    BY <2>1
  <2>3. ~damaged /\ IsSeq(wire) /\ IsSeq(payload)
        /\ Begun(wire, payload, Len(payload), Len(wire))
    BY <2>1, <2>2, Zenon DEF SlipInv
  <2>4. IsSeq(wire') /\ IsSeq(payload') /\ Begun(wire', payload', Len(payload'), Len(wire'))
    BY <2>1, <2>3, BegunWrites, Zenon
  <2>. QED
    BY <2>1, <2>2, <2>3, <2>4, Zenon DEF SlipInv
<1>3. ASSUME esp_request_end
      PROVE  SlipInv'
  <2>1. PICK x, y : x = crc % 256 /\ y = crc \div 256
    OBVIOUS
  <2>2. phase = "frame" /\ phase' = "done" /\ damaged' = damaged
        /\ payload' = payload \o <<x, y>>
        /\ wire' = wire \o Escaped(x) \o Escaped(y) \o <<SLIP_END>>
    BY <1>3, <2>1, Zenon DEF esp_request_end
  <2>3. phase # "done" /\ phase' # "frame"
    BY <2>2
  <2>4. ~damaged /\ IsSeq(wire) /\ IsSeq(payload)
        /\ Begun(wire, payload, Len(payload), Len(wire))
    BY <2>2, <2>3, Zenon DEF SlipInv
  <2>5. PICK v, t : v = wire \o Escaped(x) /\ t = Append(payload, x)
    OBVIOUS
  <2>6. IsSeq(v) /\ IsSeq(t) /\ Begun(v, t, Len(t), Len(v))
    BY <2>4, <2>5, BegunWrites, Zenon
  <2>7. PICK u, r : u = v \o Escaped(y) /\ r = Append(t, y)
    OBVIOUS
  <2>8. IsSeq(u) /\ IsSeq(r) /\ Begun(u, r, Len(r), Len(u))
    BY <2>6, <2>7, BegunWrites, Zenon
  <2>9. payload' = r
    <3>1. payload \o <<x, y>> = Append(Append(payload, x), y)
      BY <2>4, SeqJoinsTwo
    <3>. QED
      BY <2>2, <2>5, <2>7, <3>1, Zenon
  <2>10. wire' = u \o <<SLIP_END>>
    BY <2>2, <2>5, <2>7, Zenon
  <2>11. IsSeq(wire') /\ Ahead(wire', payload')
    BY <2>8, <2>9, <2>10, BegunEnds, Zenon
  <2>. QED
    BY <2>2, <2>3, <2>8, <2>9, <2>11, Zenon DEF SlipInv
<1>. QED
  BY <1>1, <1>2, <1>3, Zenon

LEMMA SlipParses ==
    ASSUME SlipInv, ParseEscape \/ ParseStart \/ ParseEnd \/ ParseByte
    PROVE  SlipInv'
<1>1. Parsed(wire, buf, isEsc, done, wire', buf', isEsc', done')
  <2>1. ASSUME ParseEscape
        PROVE  Parsed(wire, buf, isEsc, done, wire', buf', isEsc', done')
    BY <2>1, Zenon DEF ParseEscape, Parses, Parsed
  <2>2. ASSUME ParseStart
        PROVE  Parsed(wire, buf, isEsc, done, wire', buf', isEsc', done')
    BY <2>2, Zenon DEF ParseStart, Parses, Parsed
  <2>3. ASSUME ParseEnd
        PROVE  Parsed(wire, buf, isEsc, done, wire', buf', isEsc', done')
    BY <2>3, Zenon DEF ParseEnd, Parses, Parsed
  <2>4. ASSUME ParseByte
        PROVE  Parsed(wire, buf, isEsc, done, wire', buf', isEsc', done')
    BY <2>4, Zenon DEF ParseByte, Parses, Parsed, Store, Stored
  <2>. QED
    BY <2>1, <2>2, <2>3, <2>4, Zenon
<1>2. phase # "frame" /\ phase' = phase /\ payload' = payload /\ damaged' = damaged
  BY Zenon DEF ParseEscape, ParseStart, ParseEnd, ParseByte, Parses
<1>3. CASE damaged
  BY <1>2, <1>3, Zenon DEF SlipInv
<1>4. CASE ~damaged
  <2>1. IsSeq(wire) /\ IsSeq(payload)
    BY <1>4, Zenon DEF SlipInv
  <2>2. IsSeq(wire')
    BY <1>1, <2>1, ParsedFirst, Zenon
  <2>3. CASE phase = "done"
    <3>1. wire # <<>>
      BY <1>1, Zenon DEF Parsed
    <3>2. \/ Ahead(wire, payload) \/ Between(wire, payload, buf, isEsc)
          \/ Amid(wire, payload, buf, isEsc)
      BY <1>4, <2>3, <3>1, Zenon DEF SlipInv, Over
    <3>3. \/ Ahead(wire', payload) \/ Between(wire', payload, buf', isEsc')
          \/ Amid(wire', payload, buf', isEsc') \/ Over(wire', payload, done')
      <4>1. CASE Ahead(wire, payload)
        BY <4>1, <1>1, <2>1, AheadParsed, Zenon
      <4>2. CASE Between(wire, payload, buf, isEsc)
        BY <4>2, <1>1, <2>1, BetweenParsed, Zenon
      <4>3. CASE Amid(wire, payload, buf, isEsc)
        BY <4>3, <1>1, <2>1, AmidParsed, Zenon
      <4>. QED
        BY <3>2, <4>1, <4>2, <4>3, Zenon
    <3>. QED
      BY <1>2, <1>4, <2>1, <2>2, <3>3, Zenon DEF SlipInv
  <2>4. CASE phase # "done"
    BY <1>2, <1>4, <2>1, <2>2, <2>4, Zenon DEF SlipInv
  <2>. QED
    BY <2>3, <2>4, Zenon
<1>. QED
  BY <1>3, <1>4, Zenon

LEMMA SlipStep ==
    ASSUME SlipInv, [SlipNext]_slipVars
    PROVE  SlipInv'
<1>1. CASE slip_request_start \/ (\E b \in Byte : esp_write_crc(b)) \/ esp_request_end
  BY <1>1, SlipSends, Zenon
<1>2. ASSUME NEW b \in Byte, Stray(b)
      PROVE  SlipInv'
  <2>1. phase = "before" /\ phase' = phase /\ damaged' = damaged /\ payload' = payload
        /\ wire' = Append(wire, b)
    BY <1>2 DEF Stray
  <2>2. phase' # "done" /\ phase' # "frame" /\ phase # "done"
    BY <2>1
  <2>3. ~damaged /\ IsSeq(wire) /\ IsSeq(payload)
    BY <2>2, Zenon DEF SlipInv
  <2>4. IsSeq(wire')
    BY <2>1, <2>3, SeqGrows, Zenon
  <2>. QED
    BY <2>1, <2>2, <2>3, <2>4, Zenon DEF SlipInv
<1>3. ASSUME NEW i \in 2 .. Len(wire) - 1, NEW e \in First, NEW f \in Second, Damage(i, e, f)
      PROVE  SlipInv'
  <2>1. phase' = "done" /\ damaged' = TRUE
    BY <1>3 DEF Damage
  <2>. QED
    BY <2>1, Zenon DEF SlipInv
<1>4. CASE ParseEscape \/ ParseStart \/ ParseEnd \/ ParseByte
  BY <1>4, SlipParses, Zenon
<1>5. CASE UNCHANGED slipVars
  BY <1>5 DEF slipVars, SlipInv
<1>. QED
  BY <1>1, <1>2, <1>3, <1>4, <1>5, Zenon DEF SlipNext

LEMMA SlipInvArrives == SlipInv => RoundTrip
<1>. SUFFICES ASSUME SlipInv, phase = "done", wire = <<>>, ~damaged
              PROVE  done = SubSeq(payload, 1, IF Fits THEN Len(payload) ELSE BufSize)
  BY DEF RoundTrip, Arrived
<1>1. PICK n \in Nat : n = Len(payload)
  BY SeqLen DEF SlipInv
<1>2. Len(wire) = 0 /\ BufSize \in Nat /\ IsSeq(payload)
  BY SeqEmpty, SlipAssumption DEF SlipInv
<1>3. ASSUME NEW p, NEW k \in Nat, k <= n, Rest(wire, payload, n, 0, p, k), p[k + 1] >= 1
      PROVE  FALSE
  <2>1. p \in [Nat -> Int] /\ p[n + 1] = 0 /\ p[k + 1] <= p[n + 1]
    BY <1>3 DEF Rest, Codes
  <2>. QED
    BY <1>3, <2>1
<1>4. ~Ahead(wire, payload)
  <2>1. SUFFICES ASSUME NEW p, Rest(wire, payload, n, 0, p, 0), p[1] >= 2
                 PROVE  FALSE
    BY <1>1, <1>2, Zenon DEF Ahead
  <2>2. p \in [Nat -> Int]
    BY <2>1 DEF Rest, Codes
  <2>3. p[0 + 1] >= 1
    BY <2>1, <2>2
  <2>. QED
    BY <1>3, <2>1, <2>3
<1>5. ~Between(wire, payload, buf, isEsc)
  <2>1. SUFFICES ASSUME NEW p, NEW k \in Nat, k <= n, Rest(wire, payload, n, 0, p, k), p[k + 1] = 1
                 PROVE  FALSE
    BY <1>1, <1>2, Zenon DEF Between
  <2>. QED
    BY <1>3, <2>1
<1>6. ~Amid(wire, payload, buf, isEsc)
  <2>1. SUFFICES ASSUME NEW p, NEW k \in Nat, k < n, Rest(wire, payload, n, 0, p, k + 1), p[k + 2] = 2
                 PROVE  FALSE
    BY <1>1, <1>2, Zenon DEF Amid
  <2>2. k + 1 \in Nat /\ k + 1 <= n /\ p[k + 1 + 1] >= 1
    BY <2>1
  <2>. QED
    BY <1>3, <2>1, <2>2
<1>7. Held(done, payload, n)
  BY <1>1, <1>4, <1>5, <1>6, Zenon DEF SlipInv, Over
<1>8. PICK m \in Nat : m = IF n <= BufSize THEN n ELSE BufSize
  BY <1>2
<1>9. m <= n
  BY <1>2, <1>8
<1>10. IsSeq(done) /\ Len(done) = m /\ \A i \in 1 .. m : done[i] = payload[i]
  BY <1>7, <1>8, Zenon DEF Held
<1>11. done = SubSeq(payload, 1, m)
  BY <1>1, <1>2, <1>9, <1>10, SeqBegins
<1>. QED
  BY <1>1, <1>8, <1>11, Zenon DEF Fits

\* A frame that is not damaged arrives as esp_write_byte and esp_request_end sent
\* it, up to the size of the parser's buffer, whatever bytes it is made of and
\* whatever esp_process found on the line before its start marker.
THEOREM SlipRoundTrip == SlipSpec => []RoundTrip
<1>1. SlipInv /\ [SlipNext]_slipVars => SlipInv'
  BY SlipStep
<1>. QED
  BY SlipInitInv, <1>1, SlipInvArrives, PTL DEF SlipSpec
=============================================================================
