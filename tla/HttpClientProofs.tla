-------------------------- MODULE HttpClientProofs --------------------------
(***************************************************************************)
(* Proofs about a client that threads share, for any number of threads,    *)
(* sockets, redirections, authorizations and addresses: the stream of a    *)
(* request is the client's connection, no connection is leaked or kept     *)
(* when it should not be, and requests of requests are bounded.            *)
(***************************************************************************)
EXTENDS HttpClient, SequenceTheorems, FiniteSetTheorems, TLAPS

Sockets == Fds \cup {INVALID_SOCKET}
Outer == {"redirected", "authorized"}
Idle == {"send", "connect", "secure", "relocking", "return"}
Places == Outer \cup Idle \cup {"exchange", "close", "follow", "finish"}

Statuses == {200, 302, 401, 407}

Requests ==
    [at : Places, sock : Sockets, redirect_count_ : 0..MaxRedirects,
     authorization_count_ : 0..MaxAuthorizations, status : Statuses,
     ret : BOOLEAN]

ClientTypeOK ==
    /\ keep_alive_ \in BOOLEAN /\ requests \in Seq(Requests)
    /\ socket_ \in Sockets /\ tried \in Sockets /\ other \in Sockets
    /\ in_flight \in Int /\ should_close \in BOOLEAN
    /\ connecting \in BOOLEAN /\ twice \in BOOLEAN /\ bare \in BOOLEAN
    /\ addresses \in 0..MaxAddresses
    /\ fds \in [Fds -> {Closed, Mine, Other}] /\ shut \subseteq Fds

\* A request that made another one waits for it.  Each of the inner ones has
\* used a redirection or an authorization more.
StackInv ==
    /\ \A i \in 1..(Depth - 1) :
           /\ requests[i].at \in Outer
           /\ requests[i + 1].redirect_count_ <= requests[i].redirect_count_
    /\ \A i \in 1..Depth :
           i <= 1 + (MaxRedirects - requests[i].redirect_count_)
                  + requests[i].authorization_count_

\* send() is being called.
Busy == requests # <<>>

\* Every request that is not at the top has a stream.
FlightInv ==
    in_flight = IF ~Busy THEN 0 ELSE IF Top.at \in Idle THEN Depth - 1 ELSE Depth

\* There is no socket while one is made; then there is one, for TLS to be added.
ConnectInv ==
    /\ connecting <=> Busy /\ Top.at \in {"connect", "secure", "relocking"}
    /\ Busy /\ Top.at = "connect" => socket_ = INVALID_SOCKET
    /\ Busy /\ Top.at = "secure" => socket_ # INVALID_SOCKET

\* Until a number is closed twice: what is open for the client is in socket_,
\* and what other code holds is its own.
SocketInv ==
    ~twice =>
        /\ socket_ # INVALID_SOCKET => fds[socket_] = Mine
        /\ other # INVALID_SOCKET => fds[other] = Other
        /\ \A f \in Fds : fds[f] = Mine => f = socket_

\* The stream of the request that reads and writes is the socket.
StreamInv ==
    Busy /\ Top.at = "exchange" => socket_ # INVALID_SOCKET /\ Top.sock = socket_

\* A connection that was shut down is going to be closed: the flag says so, or
\* the request that reuses it fails.
ShutInv ==
    /\ shut \subseteq {socket_}
    /\ socket_ \in shut =>
           /\ Busy
           /\ Top.at = "return" => Depth > 1
           /\ Top.at # "secure"
           /\ \/ should_close
              \/ Top.at = "send"
              \/ Top.at \in {"exchange", "finish"} /\ ~Top.ret
    /\ Busy /\ Top.at \in {"send", "connect", "secure", "exchange"} => ~Top.ret
    /\ ~keep_alive_ /\ ~bare /\ socket_ # INVALID_SOCKET => Busy /\ Top.at # "return"

\* Requests are made by the thread that has request_mutex_.
HolderInv == holder = None => ~Busy

ClientInv ==
    /\ ClientTypeOK /\ StackInv /\ HolderInv /\ FlightInv /\ ConnectInv
    /\ SocketInv /\ StreamInv /\ ShutInv
-----------------------------------------------------------------------------
(* The stack of requests.                                                  *)

\* The fields of the request at the top.
LEMMA TopType ==
    ASSUME ClientTypeOK, Busy
    PROVE  /\ Depth \in Nat /\ Depth >= 1 /\ DOMAIN requests = 1..Depth
           /\ \A i \in 1..Depth : requests[i] \in Requests
           /\ Top \in Requests
<1>1. requests \in Seq(Requests)
  BY DEF ClientTypeOK
<1>2. Depth \in Nat /\ Depth # 0 /\ DOMAIN requests = 1..Depth
  BY <1>1, LenProperties, EmptySeq DEF Depth, Busy
<1>3. \A i \in 1..Depth : requests[i] \in Requests
  BY <1>1, ElementOfSeq DEF Depth
<1> QED BY <1>2, <1>3 DEF Top

\* What a request holds.
LEMMA RequestFields ==
    ASSUME NEW r \in Requests
    PROVE  /\ r.at \in Places /\ r.sock \in Sockets
           /\ r.redirect_count_ \in Nat /\ r.redirect_count_ <= MaxRedirects
           /\ r.authorization_count_ \in Nat
           /\ r.authorization_count_ <= MaxAuthorizations
           /\ r.ret \in BOOLEAN
BY ClientAssumption DEF Requests

\* The request at the top becomes r, another one is made, or it returns to the
\* one that made it.
Becomes(r) == requests' = [requests EXCEPT ![Depth] = r]
Makes(p, q) == requests' = Append([requests EXCEPT ![Depth].at = p], q)
Leaves(q) == requests' = Append(SubSeq(requests, 1, Depth - 2), q)

\* With as many redirections left, or fewer; with one less, or an authorization
\* more.
Spends(r, s) ==
    /\ r.redirect_count_ <= s.redirect_count_
    /\ r.authorization_count_ = s.authorization_count_
SpendsOne(r, s) ==
    /\ r.redirect_count_ <= s.redirect_count_
    /\ (s.redirect_count_ - r.redirect_count_)
           + (r.authorization_count_ - s.authorization_count_) = 1

\* The bounds are numbers.
LEMMA Bounds == MaxRedirects \in Nat /\ MaxAuthorizations \in Nat /\ MaxAddresses \in Nat
BY ClientAssumption

\* A request more, of one more spent.
LEMMA SpentOne ==
    ASSUME NEW r \in Requests, NEW s \in Requests, NEW n \in Nat, SpendsOne(r, s),
           n <= 1 + (MaxRedirects - s.redirect_count_) + s.authorization_count_
    PROVE  n + 1 <= 1 + (MaxRedirects - r.redirect_count_) + r.authorization_count_
<1>1. ASSUME NEW a \in Nat, NEW b \in Nat, NEW c \in Nat, NEW d \in Nat, NEW m \in Nat,
             (b - a) + (c - d) = 1, n <= 1 + (m - b) + d
      PROVE  n + 1 <= 1 + (m - a) + c
  BY <1>1
<1>2. /\ r.redirect_count_ \in Nat /\ r.authorization_count_ \in Nat
      /\ s.redirect_count_ \in Nat /\ s.authorization_count_ \in Nat
  BY RequestFields
<1>3. (s.redirect_count_ - r.redirect_count_)
          + (r.authorization_count_ - s.authorization_count_) = 1
  BY DEF SpendsOne
<1> QED BY <1>1, <1>2, <1>3, Bounds

\* An element of a sequence is replaced.
LEMMA ReplacedAt ==
    ASSUME NEW S, NEW s \in Seq(S), NEW n \in 1..Len(s), NEW r \in S, NEW t,
           t = [s EXCEPT ![n] = r]
    PROVE  /\ t \in Seq(S) /\ Len(t) = Len(s) /\ t[n] = r
           /\ \A i \in 1..Len(s) : i # n => t[i] = s[i]
<1>1. DOMAIN s = 1..Len(s) /\ Len(s) \in Nat
  BY LenProperties
<1>2. \A i \in 1..Len(s) : s[i] \in S
  BY ElementOfSeq
<1>3. /\ t \in [1..Len(s) -> S] /\ t[n] = r
      /\ \A i \in 1..Len(s) : i # n => t[i] = s[i]
  BY <1>1, <1>2
<1>4. t \in Seq(S)
  BY <1>1, <1>3, SeqDef
<1>5. Len(t) = Len(s)
  BY <1>1, <1>3, <1>4, LenProperties
<1> QED BY <1>3, <1>4, <1>5

\* An initial part of a sequence.
LEMMA PrefixProperties ==
    ASSUME NEW S, NEW s \in Seq(S), NEW n \in Nat, n <= Len(s)
    PROVE  /\ SubSeq(s, 1, n) \in Seq(S) /\ Len(SubSeq(s, 1, n)) = n
           /\ \A i \in 1..n : SubSeq(s, 1, n)[i] = s[i]
<1>1. \A i \in 1..n : s[i] \in S
  BY LenProperties, ElementOfSeq
<1> QED BY <1>1, SubSeqProperties, LenProperties

\* A request at another place.
LEMMA MovedTo ==
    ASSUME NEW r \in Requests, NEW p \in Places
    PROVE  /\ [r EXCEPT !.at = p] \in Requests
           /\ [r EXCEPT !.at = p].redirect_count_ = r.redirect_count_
           /\ [r EXCEPT !.at = p].authorization_count_ = r.authorization_count_
           /\ [r EXCEPT !.at = p].at = p
BY DEF Requests

\* The request at the top goes on, with as many redirections left, or fewer.
LEMMA TopChanged ==
    ASSUME ClientTypeOK, StackInv, Busy, NEW r \in Requests,
           Spends(r, Top), Becomes(r)
    PROVE  /\ requests' \in Seq(Requests) /\ Busy'
           /\ Depth' = Depth /\ Top' = r /\ StackInv'
<1>1. /\ Depth \in Nat /\ Depth >= 1
      /\ \A i \in 1..Depth : requests[i] \in Requests
      /\ Top \in Requests
  BY TopType
<1> DEFINE n == Len(requests)
<1>t. Top = requests[Depth]
  BY DEF Top
<1>2. /\ n \in 1..n /\ requests \in Seq(Requests)
      /\ requests' = [requests EXCEPT ![n] = r]
  BY <1>1 DEF ClientTypeOK, Becomes, Depth
<1>3. /\ requests' \in Seq(Requests) /\ Len(requests') = Depth
      /\ requests'[Depth] = r
      /\ \A i \in 1..Depth : i # Depth => requests'[i] = requests[i]
  <2>1. /\ requests' \in Seq(Requests) /\ Len(requests') = n
        /\ requests'[n] = r
        /\ \A i \in 1..n : i # n => requests'[i] = requests[i]
    BY <1>2, ReplacedAt
  <2> QED BY <2>1 DEF Depth
<1>4. Depth' = Depth /\ Busy'
  <2>1. Depth' = Depth
    BY <1>3 DEF Depth
  <2>2. Len(requests') # 0
    BY <1>1, <1>3
  <2> QED BY <2>1, <2>2, EmptySeq DEF Busy
<1>5. requests'[Depth] = r /\ \A i \in 1..(Depth - 1) : requests'[i] = requests[i]
  <2>1. \A i \in 1..(Depth - 1) : i \in 1..Depth /\ i # Depth
    BY <1>1
  <2> QED BY <1>3, <2>1
<1>6. Top' = r
  BY <1>4, <1>5 DEF Top
<1>7. ASSUME NEW i \in 1..(Depth - 1)
      PROVE  /\ requests'[i].at \in Outer
             /\ requests'[i + 1].redirect_count_ <= requests'[i].redirect_count_
  <2>1. /\ requests[i].at \in Outer /\ requests'[i] = requests[i]
        /\ requests[i + 1].redirect_count_ <= requests[i].redirect_count_
    BY <1>5, <1>7 DEF StackInv
  <2>2. CASE i + 1 = Depth
    <3>1. /\ r.redirect_count_ \in Nat /\ Top.redirect_count_ \in Nat
          /\ requests[i].redirect_count_ \in Nat
      BY <1>1, RequestFields
    <3>2. /\ Top.redirect_count_ <= requests[i].redirect_count_
          /\ r.redirect_count_ <= Top.redirect_count_
      BY <1>t, <2>1, <2>2 DEF Spends
    <3>3. r.redirect_count_ <= requests[i].redirect_count_
      BY <3>1, <3>2
    <3> QED BY <1>5, <2>1, <2>2, <3>3
  <2>3. CASE i + 1 \in 1..(Depth - 1)
    BY <1>5, <2>1, <2>3
  <2> QED BY <1>1, <2>2, <2>3
<1>8. ASSUME NEW i \in 1..Depth
      PROVE  i <= 1 + (MaxRedirects - requests'[i].redirect_count_)
                    + requests'[i].authorization_count_
  <2>1. i <= 1 + (MaxRedirects - requests[i].redirect_count_)
               + requests[i].authorization_count_
    BY DEF StackInv
  <2>2. /\ r.redirect_count_ \in Nat /\ requests[i].redirect_count_ \in Nat
        /\ requests[i].authorization_count_ \in Nat
    BY <1>1, RequestFields
  <2>3. CASE i = Depth
    BY <1>1, <1>t, <1>5, <2>1, <2>2, <2>3, Bounds DEF Spends
  <2>4. CASE i \in 1..(Depth - 1)
    BY <1>5, <2>1, <2>4
  <2> QED BY <1>1, <2>3, <2>4
<1> QED BY <1>3, <1>4, <1>6, <1>7, <1>8 DEF StackInv

\* A request makes another one, which has a redirection less left or an
\* authorization more.
LEMMA Pushed ==
    ASSUME ClientTypeOK, StackInv, Busy, NEW p \in Outer,
           NEW q \in Requests, SpendsOne(q, Top), Makes(p, q)
    PROVE  /\ requests' \in Seq(Requests) /\ Busy'
           /\ Depth' = Depth + 1 /\ Top' = q /\ StackInv'
<1> DEFINE s == [requests EXCEPT ![Depth].at = p]
<1>1. /\ Depth \in Nat /\ Depth >= 1
      /\ \A i \in 1..Depth : requests[i] \in Requests
      /\ Top \in Requests
  BY TopType
<1> DEFINE n == Len(requests)
<1>t. Top = requests[Depth]
  BY DEF Top
<1>2. /\ s \in Seq(Requests) /\ Len(s) = Depth
      /\ \A i \in 1..Depth : /\ s[i] \in Requests
                             /\ s[i].redirect_count_ = requests[i].redirect_count_
                             /\ s[i].authorization_count_ = requests[i].authorization_count_
                             /\ i < Depth => s[i] = requests[i]
                             /\ i = Depth => s[i].at = p
  <2> DEFINE t == [Top EXCEPT !.at = p]
  <2>1. /\ t \in Requests /\ t.redirect_count_ = Top.redirect_count_
        /\ t.authorization_count_ = Top.authorization_count_ /\ t.at = p
    BY <1>1, MovedTo DEF Places
  <2>2. /\ s \in Seq(Requests) /\ Len(s) = Depth /\ s[Depth] = t
        /\ \A i \in 1..Depth : i # Depth => s[i] = requests[i]
    <3>1. /\ n \in 1..n /\ requests \in Seq(Requests)
          /\ s = [requests EXCEPT ![n] = t]
      BY <1>1, <1>t DEF ClientTypeOK, Depth
    <3> HIDE DEF s, t
    <3>2. /\ s \in Seq(Requests) /\ Len(s) = n /\ s[n] = t
          /\ \A i \in 1..n : i # n => s[i] = requests[i]
      BY <2>1, <3>1, ReplacedAt
    <3> QED BY <3>2 DEF Depth
  <2> HIDE DEF s, t
  <2> SUFFICES ASSUME NEW i \in 1..Depth
               PROVE  /\ s[i] \in Requests
                      /\ s[i].redirect_count_ = requests[i].redirect_count_
                      /\ s[i].authorization_count_ = requests[i].authorization_count_
                      /\ i < Depth => s[i] = requests[i]
                      /\ i = Depth => s[i].at = p
    BY <2>2
  <2>3. CASE i = Depth
    BY <1>1, <1>t, <2>1, <2>2, <2>3
  <2>4. CASE i # Depth
    BY <1>1, <2>2, <2>4
  <2> QED BY <2>3, <2>4
<1> HIDE DEF s
<1>4. /\ requests' \in Seq(Requests) /\ Len(requests') = Depth + 1
      /\ \A i \in 1..Depth : requests'[i] = s[i]
      /\ requests'[Depth + 1] = q /\ Busy'
  BY <1>2, AppendProperties DEF s, Makes, Busy
<1>5. Depth' = Depth + 1 /\ Top' = q
  BY <1>4 DEF Depth, Top
<1>6. ASSUME NEW i \in 1..Depth
      PROVE  /\ requests'[i].at \in Outer
             /\ requests'[i + 1].redirect_count_ <= requests'[i].redirect_count_
  <2>1. CASE i = Depth
    BY <1>1, <1>t, <1>2, <1>4, <2>1 DEF SpendsOne
  <2>2. CASE i < Depth
    <3>1. i \in 1..(Depth - 1) /\ i + 1 \in 1..Depth
      BY <1>1, <2>2
    <3>2. /\ requests[i].at \in Outer
          /\ requests[i + 1].redirect_count_ <= requests[i].redirect_count_
      BY <3>1 DEF StackInv
    <3> QED BY <1>2, <1>4, <2>2, <3>1, <3>2
  <2> QED BY <1>1, <2>1, <2>2
<1>7. ASSUME NEW i \in 1..(Depth + 1)
      PROVE  i <= 1 + (MaxRedirects - requests'[i].redirect_count_)
                    + requests'[i].authorization_count_
  <2>1. CASE i \in 1..Depth
    BY <1>2, <1>4, <2>1 DEF StackInv
  <2>2. CASE i = Depth + 1
    <3>1. Depth <= 1 + (MaxRedirects - Top.redirect_count_) + Top.authorization_count_
      BY <1>1, <1>t DEF StackInv
    <3>2. SpendsOne(q, Top)
      OBVIOUS
    <3>3. Depth + 1 <= 1 + (MaxRedirects - q.redirect_count_) + q.authorization_count_
      BY <1>1, <3>1, <3>2, SpentOne
    <3> QED BY <1>4, <2>2, <3>3
  <2> QED BY <1>1, <2>1, <2>2
<1>8. Depth' - 1 = Depth
  BY <1>1, <1>5
<1> QED BY <1>4, <1>5, <1>6, <1>7, <1>8 DEF StackInv

\* A request returns to the one that made it.
LEMMA Popped ==
    ASSUME ClientTypeOK, StackInv, Busy, Depth > 1, NEW q \in Requests,
           q.at \in Outer, Spends(q, requests[Depth - 1]), Leaves(q)
    PROVE  /\ requests' \in Seq(Requests) /\ Busy'
           /\ Depth' = Depth - 1 /\ Top' = q /\ StackInv'
<1> DEFINE s == SubSeq(requests, 1, Depth - 2)
           n == Depth - 2
<1>1. /\ Depth \in Nat /\ n \in Nat /\ Depth = n + 2
      /\ \A i \in 1..Depth : requests[i] \in Requests
  BY TopType
<1>2. s \in Seq(Requests) /\ Len(s) = n /\ \A i \in 1..n : s[i] = requests[i]
  <2>1. requests \in Seq(Requests) /\ n <= Len(requests) /\ n \in Nat
    BY <1>1 DEF ClientTypeOK, Depth
  <2> HIDE DEF n
  <2>2. SubSeq(requests, 1, n) \in Seq(Requests) /\ Len(SubSeq(requests, 1, n)) = n
        /\ \A i \in 1..n : SubSeq(requests, 1, n)[i] = requests[i]
    BY <2>1, PrefixProperties
  <2> QED BY <2>2 DEF n
<1>a. requests' = Append(s, q)
  BY DEF Leaves
<1> HIDE DEF s, n
<1>3. /\ requests' \in Seq(Requests) /\ Len(requests') = n + 1
      /\ \A i \in 1..n : requests'[i] = requests[i]
      /\ requests'[n + 1] = q /\ Busy'
  <2>1. /\ requests' \in Seq(Requests) /\ Len(requests') = n + 1
        /\ \A i \in 1..n : requests'[i] = s[i]
        /\ requests'[n + 1] = q
    BY <1>2, <1>a, AppendProperties
  <2>2. Len(requests') # 0
    BY <1>1, <2>1
  <2> QED BY <1>2, <2>1, <2>2, EmptySeq DEF Busy
<1>4. Depth' = n + 1 /\ Top' = q
  BY <1>3 DEF Depth, Top
<1>5. requests[Depth - 1] = requests[n + 1]
  BY <1>1
<1>6. ASSUME NEW i \in 1..n
      PROVE  /\ requests'[i].at \in Outer
             /\ requests'[i + 1].redirect_count_ <= requests'[i].redirect_count_
  <2>1. /\ requests[i].at \in Outer
        /\ requests[i + 1].redirect_count_ <= requests[i].redirect_count_
    BY <1>1 DEF StackInv
  <2>2. CASE i < n
    BY <1>1, <1>3, <2>1, <2>2
  <2>3. CASE i = n
    <3>1. /\ q.redirect_count_ \in Nat /\ requests[n].redirect_count_ \in Nat
          /\ requests[n + 1].redirect_count_ \in Nat
      BY <1>1, <2>3, RequestFields
    <3> QED BY <1>3, <1>5, <2>1, <2>3, <3>1 DEF Spends
  <2> QED BY <1>1, <2>2, <2>3
<1>7. ASSUME NEW i \in 1..(n + 1)
      PROVE  i <= 1 + (MaxRedirects - requests'[i].redirect_count_)
                    + requests'[i].authorization_count_
  <2>1. i <= 1 + (MaxRedirects - requests[i].redirect_count_)
               + requests[i].authorization_count_
    BY <1>1 DEF StackInv
  <2>2. CASE i \in 1..n
    BY <1>3, <2>1, <2>2
  <2>3. CASE i = n + 1
    <3>1. /\ q.redirect_count_ \in Nat /\ requests[n + 1].redirect_count_ \in Nat
          /\ requests[n + 1].authorization_count_ \in Nat
      BY <1>1, RequestFields
    <3> QED BY <1>1, <1>3, <1>5, <2>1, <2>3, <3>1, Bounds DEF Spends
  <2> QED BY <1>1, <2>2, <2>3
<1>8. Depth' - 1 = n /\ Depth' = Depth - 1
  BY <1>1, <1>4
<1> QED BY <1>3, <1>4, <1>6, <1>7, <1>8 DEF StackInv
-----------------------------------------------------------------------------
(* What an action does to the requests.                                    *)

\* The top is a request at p, with the stream of f, that returns b; n requests
\* are being made.
Now(p, f, b, n) ==
    /\ requests' \in Seq(Requests) /\ StackInv' /\ Busy' /\ Depth' = n
    /\ Top'.at = p /\ Top'.sock = f /\ Top'.ret = b

\* A step at a place of the innermost request has one in flight.
LEMMA AtTopIs ==
    ASSUME NEW p, AtTop(p)
    PROVE  Busy /\ Top.at = p
BY DEF AtTop, Busy

\* A step that changes no request keeps what is said of them.
LEMMA NothingChanged ==
    ASSUME UNCHANGED requests
    PROVE  /\ Busy' = Busy /\ Depth' = Depth /\ Top' = Top
           /\ StackInv' = StackInv
<1>1. Busy' = Busy /\ Depth' = Depth /\ Top' = Top
  BY DEF Busy, Depth, Top
<1> QED BY <1>1 DEF StackInv

\* The innermost request goes to another place, with all it has.
LEMMA GoesTo ==
    ASSUME ClientTypeOK, StackInv, Busy, NEW p \in Places, Goes(p)
    PROVE  Now(p, Top.sock, Top.ret, Depth)
<1> DEFINE r == [Top EXCEPT !.at = p]
<1>1. Top \in Requests
  BY TopType
<1>2. /\ r \in Requests /\ Spends(r, Top) /\ r.at = p
      /\ r.sock = Top.sock /\ r.ret = Top.ret
  <2>1. r \in Requests /\ r.at = p /\ r.sock = Top.sock /\ r.ret = Top.ret
    BY <1>1 DEF Requests
  <2>2. Spends(r, Top)
    BY <1>1, MovedTo, RequestFields DEF Spends
  <2> QED BY <2>1, <2>2
<1>3. Becomes(r)
  BY DEF Becomes, Goes, Top
<1> HIDE DEF r
<1> QED BY <1>2, <1>3, TopChanged DEF Now

\* The top with the stream of a socket.
LEMMA TakesSocket ==
    ASSUME ClientTypeOK, StackInv, Busy, NEW f \in Sockets, InFlight(f)
    PROVE  Now("exchange", f, Top.ret, Depth) /\ in_flight' = in_flight + 1
<1> DEFINE r == [Top EXCEPT !.at = "exchange", !.sock = f]
<1>1. Top \in Requests
  BY TopType
<1>2. /\ r \in Requests /\ r.at = "exchange" /\ r.sock = f /\ r.ret = Top.ret
      /\ r.redirect_count_ = Top.redirect_count_
      /\ r.authorization_count_ = Top.authorization_count_
  BY <1>1 DEF Requests, Places
<1>3. Becomes(r) /\ in_flight' = in_flight + 1
  BY DEF Becomes, InFlight, Top
<1> HIDE DEF r
<1>4. Spends(r, Top)
  BY <1>1, <1>2, RequestFields DEF Spends
<1> QED BY <1>2, <1>3, <1>4, TopChanged DEF Now

\* Three fields of an element are those of the element.
Answer(r, x, y) == [r EXCEPT !.ret = TRUE, !.status = x, !.at = y]
AnsweredAt(s, n, x, y) == [s EXCEPT ![n].ret = TRUE, ![n].status = x, ![n].at = y]
Away(r, x, y, z) == [r EXCEPT !.at = x, !.status = y, !.redirect_count_ = z]
AwayAt(s, n, x, y, z) ==
    [s EXCEPT ![n].at = x, ![n].status = y, ![n].redirect_count_ = z]

\* A response is set field by field; at once is the same.
LEMMA AnswerFields ==
    ASSUME NEW s, NEW n, NEW x, NEW y
    PROVE  AnsweredAt(s, n, x, y) = [s EXCEPT ![n] = Answer(s[n], x, y)]
BY ZenonT(60) DEF AnsweredAt, Answer

\* So is a request that goes to another connection.
LEMMA AwayFields ==
    ASSUME NEW s, NEW n, NEW x, NEW y, NEW z
    PROVE  AwayAt(s, n, x, y, z) = [s EXCEPT ![n] = Away(s[n], x, y, z)]
BY ZenonT(60) DEF AwayAt, Away

\* The top with a response.
LEMMA Responds ==
    ASSUME ClientTypeOK, StackInv, Busy, NEW p \in Places, NEW status \in Statuses,
           requests' = AnsweredAt(requests, Depth, status, p)
    PROVE  Now(p, Top.sock, TRUE, Depth)
<1> DEFINE r == [Top EXCEPT !.ret = TRUE, !.status = status, !.at = p]
<1>1. Top \in Requests
  BY TopType
<1>2. /\ r \in Requests /\ r.at = p /\ r.sock = Top.sock /\ r.ret = TRUE
      /\ r.redirect_count_ = Top.redirect_count_
      /\ r.authorization_count_ = Top.authorization_count_
  BY <1>1 DEF Requests
<1>3. Becomes(r)
  <2>1. r = Answer(Top, status, p)
    BY DEF Answer
  <2> HIDE DEF r
  <2> QED BY <2>1, AnswerFields DEF Becomes, Top
<1> HIDE DEF r
<1>4. Spends(r, Top)
  BY <1>1, <1>2, RequestFields DEF Spends
<1> QED BY <1>2, <1>3, <1>4, TopChanged DEF Now

\* The response to a request that was written is there, and the request goes on.
LEMMA Answers ==
    ASSUME ClientTypeOK, StackInv, Busy, Exchange
    PROVE  \E p \in {"close", "follow"} : Now(p, Top.sock, TRUE, Depth)
<1>1. PICK status \in {200, 302, 401}, closes \in BOOLEAN :
          requests' = [requests EXCEPT ![Depth].ret = TRUE, ![Depth].status = status,
                                       ![Depth].at = IF closes THEN "close" ELSE "follow"]
  BY DEF Exchange
<1>2. status \in Statuses /\ "close" \in Places /\ "follow" \in Places
  BY DEF Statuses, Places
<1>3. requests' = AnsweredAt(requests, Depth, status, IF closes THEN "close" ELSE "follow")
  BY <1>1 DEF AnsweredAt
<1>4. CASE closes
  <2>1. requests' = AnsweredAt(requests, Depth, status, "close")
    BY <1>3, <1>4
  <2> QED BY <1>2, <2>1, Responds
<1>5. CASE ~closes
  <2>1. requests' = AnsweredAt(requests, Depth, status, "follow")
    BY <1>3, <1>5
  <2> QED BY <1>2, <2>1, Responds
<1> QED BY <1>4, <1>5

\* The top redirected by another client, or not at all.
LEMMA RedirectedTo ==
    ASSUME ClientTypeOK, StackInv, Busy, RedirectElsewhere
    PROVE  \E b \in BOOLEAN : Now("redirected", Top.sock, b, Depth)
<1>1. Top \in Requests
  BY TopType
<1>2. CASE requests' = [requests EXCEPT ![Depth].at = "redirected", ![Depth].ret = FALSE]
  <2> DEFINE r == [Top EXCEPT !.at = "redirected", !.ret = FALSE]
  <2>1. /\ r \in Requests /\ r.at = "redirected" /\ r.sock = Top.sock /\ r.ret = FALSE
        /\ r.redirect_count_ = Top.redirect_count_
        /\ r.authorization_count_ = Top.authorization_count_
    BY <1>1 DEF Requests, Places, Outer
  <2>2. Becomes(r)
    BY <1>2 DEF Becomes, Top
  <2> HIDE DEF r
  <2>3. Spends(r, Top)
    BY <1>1, <2>1, RequestFields DEF Spends
  <2> QED BY <2>1, <2>2, <2>3, TopChanged DEF Now
<1>3. CASE \E status \in {200, 302, 401}, left \in 0..(Top.redirect_count_ - 1) :
             requests' = [requests EXCEPT ![Depth].at = "redirected",
                                          ![Depth].status = status,
                                          ![Depth].redirect_count_ = left]
  <2>1. PICK status \in {200, 302, 401}, left \in 0..(Top.redirect_count_ - 1) :
             requests' = [requests EXCEPT ![Depth].at = "redirected",
                                          ![Depth].status = status,
                                          ![Depth].redirect_count_ = left]
    BY <1>3
  <2> DEFINE r == [Top EXCEPT !.at = "redirected", !.status = status,
                              !.redirect_count_ = left]
  <2>2. left \in 0..MaxRedirects /\ left <= Top.redirect_count_ /\ status \in Statuses
    BY <1>1, RequestFields, Bounds DEF Statuses
  <2>3. /\ r \in Requests /\ r.at = "redirected" /\ r.sock = Top.sock /\ r.ret = Top.ret
        /\ r.redirect_count_ = left
        /\ r.authorization_count_ = Top.authorization_count_
    BY <1>1, <2>2 DEF Requests, Places, Outer
  <2>4. Becomes(r)
    <3>1. /\ requests' = AwayAt(requests, Depth, "redirected", status, left)
          /\ r = Away(Top, "redirected", status, left)
      BY <2>1 DEF AwayAt, Away
    <3> HIDE DEF r
    <3> QED BY <3>1, AwayFields DEF Becomes, Top
  <2> HIDE DEF r
  <2>5. Spends(r, Top) /\ Top.ret \in BOOLEAN
    BY <1>1, <2>2, <2>3, RequestFields DEF Spends
  <2> QED BY <2>3, <2>4, <2>5, TopChanged DEF Now
<1> QED BY <1>2, <1>3 DEF RedirectElsewhere

\* A request of its own.
LEMMA AsksAgain ==
    ASSUME ClientTypeOK, StackInv, Busy, NEW p \in Outer,
           NEW m \in 0..MaxRedirects, NEW n \in 0..MaxAuthorizations,
           \/ m = Top.redirect_count_ - 1 /\ n = Top.authorization_count_
           \/ m = Top.redirect_count_ /\ n = Top.authorization_count_ + 1,
           requests' = Append([requests EXCEPT ![Depth].at = p], Request(m, n))
    PROVE  Now("send", INVALID_SOCKET, FALSE, Depth + 1)
<1> DEFINE q == Request(m, n)
<1>1. Top \in Requests
  BY TopType
<1>2. /\ q \in Requests /\ q.at = "send" /\ q.sock = INVALID_SOCKET /\ q.ret = FALSE
      /\ q.redirect_count_ = m /\ q.authorization_count_ = n
  BY DEF Request, Requests, Places, Idle, Sockets, Statuses
<1>3. Makes(p, q)
  BY DEF Makes
<1> HIDE DEF q
<1>4. SpendsOne(q, Top)
  BY <1>1, <1>2, RequestFields, Bounds DEF SpendsOne
<1> QED BY <1>2, <1>3, <1>4, Pushed DEF Now

\* What a request has when the one it made returns.
Copy(o, r) ==
    IF o.at = "redirected" THEN [o EXCEPT !.redirect_count_ = r.redirect_count_] ELSE o
Outcome(o, r) ==
    IF r.ret THEN [Copy(o, r) EXCEPT !.ret = TRUE, !.status = r.status]
    ELSE [o EXCEPT !.ret = FALSE]

\* The request that had made a nested one takes over what came of it.
LEMMA Copied ==
    ASSUME NEW o \in Requests, NEW r \in Requests,
           r.redirect_count_ <= o.redirect_count_
    PROVE  Outcome(o, r) \in Requests /\ Outcome(o, r).at = o.at /\ Spends(Outcome(o, r), o)
<1> DEFINE c == Copy(o, r)
           q == Outcome(o, r)
<1>1. c \in Requests /\ c.at = o.at /\ Spends(c, o)
  <2>1. o.redirect_count_ <= o.redirect_count_
    BY RequestFields
  <2>2. CASE o.at = "redirected"
    <3>1. /\ c \in Requests /\ c.at = o.at /\ c.redirect_count_ = r.redirect_count_
          /\ c.authorization_count_ = o.authorization_count_
      BY <2>2 DEF Requests, Copy
    <3> QED BY <3>1 DEF Spends
  <2>3. CASE o.at # "redirected"
    BY <2>1, <2>3 DEF Spends, Copy
  <2> QED BY <2>2, <2>3
<1>2. CASE r.ret
  <2> DEFINE a == [c EXCEPT !.ret = TRUE, !.status = r.status]
  <2>a. q = a
    BY <1>2 DEF Outcome
  <2>c. ASSUME NEW d \in Requests
        PROVE  LET b == [d EXCEPT !.ret = TRUE, !.status = r.status]
               IN  /\ b \in Requests /\ b.at = d.at
                   /\ b.redirect_count_ = d.redirect_count_
                   /\ b.authorization_count_ = d.authorization_count_
    BY DEF Requests
  <2>d. /\ a \in Requests /\ a.at = c.at /\ a.redirect_count_ = c.redirect_count_
        /\ a.authorization_count_ = c.authorization_count_
    BY <1>1, <2>c
  <2>1. /\ q \in Requests /\ q.at = c.at /\ q.redirect_count_ = c.redirect_count_
        /\ q.authorization_count_ = c.authorization_count_
    BY <2>a, <2>d
  <2> QED BY <1>1, <2>1 DEF Spends
<1>3. CASE ~r.ret
  <2>1. /\ q \in Requests /\ q.at = o.at /\ q.redirect_count_ = o.redirect_count_
        /\ q.authorization_count_ = o.authorization_count_
    BY <1>3 DEF Requests, Outcome
  <2>2. o.redirect_count_ <= o.redirect_count_
    BY RequestFields
  <2> QED BY <2>1, <2>2 DEF Spends
<1> QED BY <1>2, <1>3

\* A nested request returns to the one that made it.
LEMMA ReturnsTo ==
    ASSUME ClientTypeOK, StackInv, Busy, ReturnInner
    PROVE  \E p \in Outer, f \in Sockets, b \in BOOLEAN : Now(p, f, b, Depth - 1)
<1> DEFINE o == requests[Depth - 1]
           q == Outcome(o, Top)
<1>1. /\ Top \in Requests /\ Depth \in Nat
      /\ \A i \in 1..Depth : requests[i] \in Requests
  BY TopType
<1>2. Depth > 1
  BY DEF ReturnInner
<1>3. Depth - 1 \in 1..Depth /\ Depth - 1 \in 1..(Depth - 1) /\ (Depth - 1) + 1 = Depth
  BY <1>1, <1>2
<1>4. o \in Requests
  BY <1>1, <1>3
<1>5. o.at \in Outer /\ requests[(Depth - 1) + 1].redirect_count_ <= o.redirect_count_
  BY <1>3 DEF StackInv
<1>6. Top.redirect_count_ <= o.redirect_count_
  BY <1>3, <1>5 DEF Top
<1>7. Leaves(q)
  BY DEF ReturnInner, Leaves, Outcome, Copy
<1> HIDE DEF o
<1>8. q \in Requests /\ q.at = o.at /\ Spends(q, o)
  BY <1>1, <1>4, <1>6, Copied
<1> HIDE DEF q
<1>9. /\ requests' \in Seq(Requests) /\ Busy' /\ Depth' = Depth - 1
      /\ Top' = q /\ StackInv'
  BY <1>2, <1>5, <1>7, <1>8, Popped DEF o
<1>10. q.at \in Outer /\ q.sock \in Sockets /\ q.ret \in BOOLEAN
  BY <1>5, <1>8, RequestFields
<1> QED BY <1>9, <1>10 DEF Now
-----------------------------------------------------------------------------
(* The socket.                                                             *)

\* The client's socket is closed.
LEMMA SocketClosed ==
    ASSUME ClientTypeOK, SocketInv, ShutInv, CloseSocket, UNCHANGED <<twice, other>>
    PROVE  /\ socket_' = INVALID_SOCKET /\ bare' = FALSE /\ shut' = {} /\ SocketInv'
           /\ fds' \in [Fds -> {Closed, Mine, Other}]
<1>1. /\ socket_' = INVALID_SOCKET /\ bare' = FALSE /\ shut' = shut \ {socket_}
      /\ fds' = [g \in Fds |-> IF g = socket_ THEN Closed ELSE fds[g]]
  BY DEF CloseSocket, CloseFd
<1>2. fds' \in [Fds -> {Closed, Mine, Other}]
  BY <1>1 DEF ClientTypeOK
<1>3. shut' = {}
  BY <1>1 DEF ShutInv
<1>4. SocketInv'
  BY <1>1, ClientAssumption DEF SocketInv, ClientTypeOK, Sockets, Closed, Mine, Other
<1> QED BY <1>1, <1>2, <1>3, <1>4

\* There is no socket and nothing is shut down: so it is at the start, and so it
\* stays while a socket is made.
LEMMA NoSocketShut ==
    ASSUME ClientTypeOK, ShutInv, socket_ = INVALID_SOCKET
    PROVE  shut = {}
BY ClientAssumption DEF ClientTypeOK, ShutInv

\* No request is in flight at first.
LEMMA ClientInit ==
    ASSUME Init
    PROVE  ClientInv
<1>1. requests = <<>> /\ ~Busy /\ Depth = 0
  BY DEF Init, Busy, Depth
<1>2. ClientTypeOK
  <2>1. requests \in Seq(Requests)
    BY <1>1
  <2>2. fds \in [Fds -> {Closed, Mine, Other}]
    BY DEF Init
  <2>3. addresses \in 0..MaxAddresses /\ in_flight \in Int
    BY Bounds DEF Init
  <2> QED BY <2>1, <2>2, <2>3 DEF Init, ClientTypeOK, Sockets
<1>3. StackInv
  BY <1>1 DEF StackInv
<1>4. FlightInv /\ ConnectInv /\ StreamInv /\ HolderInv /\ ShutInv
  BY <1>1 DEF Init, FlightInv, ConnectInv, StreamInv, HolderInv, ShutInv
<1>5. SocketInv
  BY DEF Init, SocketInv, Closed, Mine
<1> QED BY <1>2, <1>3, <1>4, <1>5 DEF ClientInv

\* A thread that takes request_mutex_ has one request.
LEMMA FirstRequest ==
    ASSUME requests' = <<Request(MaxRedirects, 0)>>
    PROVE  Now("send", INVALID_SOCKET, FALSE, 1)
<1> DEFINE q == Request(MaxRedirects, 0)
<1>1. /\ q \in Requests /\ q.at = "send" /\ q.sock = INVALID_SOCKET /\ q.ret = FALSE
      /\ q.redirect_count_ = MaxRedirects /\ q.authorization_count_ = 0
  BY Bounds DEF Request, Requests, Places, Idle, Sockets, Statuses
<1>2. requests' = <<q>>
  OBVIOUS
<1> HIDE DEF q
<1>3. requests' \in Seq(Requests) /\ Len(requests') = 1 /\ requests'[1] = q
  BY <1>1, <1>2
<1>4. Depth' = 1 /\ Busy' /\ Top' = q
  BY <1>2, <1>3 DEF Depth, Busy, Top
<1>5. StackInv'
  BY <1>1, <1>3, <1>4, Bounds DEF StackInv
<1> QED BY <1>1, <1>3, <1>4, <1>5 DEF Now
-----------------------------------------------------------------------------
\* Every step keeps the invariant.
LEMMA ClientNext ==
    ASSUME ClientInv, [Next]_vars
    PROVE  ClientInv'
<1> USE DEF ClientInv
<1>b. /\ MaxRedirects \in Nat /\ MaxAuthorizations \in Nat /\ MaxAddresses \in Nat
      /\ INVALID_SOCKET \notin Fds /\ None \notin Threads
  BY ClientAssumption
<1>d. Depth \in Nat
  BY LenProperties DEF Depth, ClientTypeOK
<1>p. Busy => Depth >= 1 /\ Top \in Requests /\ Top.sock \in Sockets /\ Top.ret \in BOOLEAN
  BY TopType, RequestFields
<1>h. ASSUME Busy, UNCHANGED holder
      PROVE  HolderInv'
  BY <1>h DEF HolderInv
<1>1. CASE ReuseSocket
  <2>1. /\ Busy /\ Top.at = "send" /\ socket_ # INVALID_SOCKET /\ socket_ \in Sockets
    BY <1>1, AtTopIs DEF ReuseSocket, ClientTypeOK
  <2>2. /\ Now("exchange", socket_, Top.ret, Depth) /\ in_flight' = in_flight + 1
    BY <1>1, <2>1, TakesSocket DEF ReuseSocket
  <2>3. ClientTypeOK'
    <3>1. in_flight' \in Int
      BY <2>2 DEF ClientTypeOK
    <3> QED BY <1>1, <2>2, <3>1 DEF ReuseSocket, ClientTypeOK, Now, system
  <2>4. FlightInv' /\ ConnectInv' /\ SocketInv' /\ StreamInv' /\ ShutInv'
    BY <1>1, <1>p, <1>d, <2>1, <2>2 DEF ReuseSocket, FlightInv, ConnectInv, SocketInv,
       StreamInv, ShutInv, ClientTypeOK, Now, system, Idle
  <2> QED BY <1>1, <1>h, <2>1, <2>2, <2>3, <2>4 DEF ReuseSocket, Now
<1>2. CASE Reconnect
  <2>1. /\ Busy /\ Top.at = "send"
    BY <1>2, AtTopIs DEF Reconnect
  <2>2. Now("connect", Top.sock, Top.ret, Depth)
    BY <1>2, <2>1, GoesTo DEF Reconnect, Places, Idle
  <2>3. /\ socket_' = INVALID_SOCKET /\ bare' = FALSE /\ shut' = {} /\ SocketInv'
        /\ fds' \in [Fds -> {Closed, Mine, Other}]
    BY <1>2, SocketClosed DEF Reconnect
  <2>4. ClientTypeOK'
    <3>1. addresses' \in 0..MaxAddresses
      BY <1>2, <1>b DEF Reconnect
    <3> QED BY <1>2, <2>2, <2>3, <3>1 DEF Reconnect, ClientTypeOK, Now, Sockets
  <2>5. FlightInv' /\ ConnectInv' /\ StreamInv' /\ ShutInv'
    BY <1>2, <1>p, <1>d, <2>1, <2>2, <2>3 DEF Reconnect, FlightInv, ConnectInv,
       StreamInv, ShutInv, ClientTypeOK, Now, Idle
  <2> QED BY <1>2, <1>h, <2>1, <2>2, <2>3, <2>4, <2>5 DEF Reconnect, Now
<1>3. CASE Connected
  <2>1. /\ Busy /\ Top.at = "connect"
    BY <1>3, AtTopIs DEF Connected
  <2>2. PICK f \in Fds : /\ fds[f] = Closed /\ fds' = [fds EXCEPT ![f] = Mine]
                         /\ socket_' = f
                         /\ \/ InFlight(f) /\ connecting' = FALSE
                            \/ Goes("secure") /\ UNCHANGED <<in_flight, connecting>>
    BY <1>3 DEF Connected
  <2>3. socket_ = INVALID_SOCKET /\ shut = {} /\ shut' = {} /\ connecting /\ ~Top.ret
    BY <1>3, <2>1, NoSocketShut DEF Connected, ConnectInv, ShutInv
  <2>4. fds' \in [Fds -> {Closed, Mine, Other}] /\ socket_' \in Sockets
    BY <2>2 DEF ClientTypeOK, Sockets
  <2>5. SocketInv'
    BY <1>3, <1>b, <2>2, <2>3 DEF Connected, SocketInv, ClientTypeOK, Sockets, Closed,
       Mine, Other
  <2>6. CASE InFlight(f) /\ connecting' = FALSE
    <3>1. Now("exchange", f, Top.ret, Depth) /\ in_flight' = in_flight + 1
      BY <2>1, <2>2, <2>6, TakesSocket DEF Sockets
    <3>2. in_flight' \in Int
      BY <3>1 DEF ClientTypeOK
    <3>3. ClientTypeOK'
      BY <1>3, <2>4, <2>6, <3>1, <3>2 DEF Connected, ClientTypeOK, Now
    <3>4. FlightInv' /\ ConnectInv' /\ StreamInv' /\ ShutInv'
      BY <1>3, <1>b, <1>p, <1>d, <2>1, <2>2, <2>3, <2>6, <3>1 DEF Connected, FlightInv,
         ConnectInv, StreamInv, ShutInv, ClientTypeOK, Now, Idle
    <3> QED BY <1>3, <1>h, <2>1, <2>5, <3>1, <3>3, <3>4 DEF Connected, Now
  <2>7. CASE Goes("secure") /\ UNCHANGED <<in_flight, connecting>>
    <3>1. Now("secure", Top.sock, Top.ret, Depth)
      BY <2>1, <2>7, GoesTo DEF Places, Idle
    <3>2. ClientTypeOK'
      BY <1>3, <2>4, <2>7, <3>1 DEF Connected, ClientTypeOK, Now
    <3>3. FlightInv' /\ ConnectInv' /\ StreamInv' /\ ShutInv'
      BY <1>3, <1>b, <1>p, <1>d, <2>1, <2>2, <2>3, <2>7, <3>1 DEF Connected, FlightInv,
         ConnectInv, StreamInv, ShutInv, ClientTypeOK, Now, Idle
    <3> QED BY <1>3, <1>h, <2>1, <2>5, <3>1, <3>2, <3>3 DEF Connected, Now
  <2> QED BY <2>2, <2>6, <2>7
<1>4. CASE ConnectFails
  <2>1. UNCHANGED <<requests, holder>> /\ tried' \in Sockets /\ addresses' \in 0..MaxAddresses
    BY <1>4, <1>b DEF ConnectFails, ClientTypeOK, Sockets
  <2>2. UNCHANGED <<Busy, Depth, Top>> /\ StackInv'
    BY <2>1, NothingChanged
  <2>3. ClientTypeOK'
    BY <1>4, <2>1 DEF ConnectFails, ClientTypeOK, system
  <2>4. FlightInv' /\ ConnectInv' /\ SocketInv' /\ StreamInv' /\ ShutInv' /\ HolderInv'
    BY <1>4, <2>1, <2>2 DEF ConnectFails, FlightInv, ConnectInv, SocketInv, StreamInv,
       ShutInv, HolderInv, system
  <2> QED BY <2>2, <2>3, <2>4
<1>5. CASE CloseAgain
  <2>1. /\ Busy /\ Top.at = "connect" /\ UNCHANGED <<requests, holder>> /\ tried \in Fds
    BY <1>5, AtTopIs DEF CloseAgain, ClientTypeOK, Sockets
  <2>2. UNCHANGED <<Busy, Depth, Top>> /\ StackInv'
    BY <2>1, NothingChanged
  <2>3. socket_ = INVALID_SOCKET /\ shut = {} /\ shut' = {}
    BY <1>5, <2>1, NoSocketShut DEF CloseAgain, CloseFd, ConnectInv
  <2>4. /\ fds' = [g \in Fds |-> IF g = tried THEN Closed ELSE fds[g]]
        /\ ~twice' => ~twice /\ fds[tried] = Closed
    BY <1>5 DEF CloseAgain, CloseFd
  <2>5. ClientTypeOK'
    BY <1>5, <2>1, <2>3, <2>4 DEF CloseAgain, ClientTypeOK, Sockets
  <2>6. FlightInv' /\ ConnectInv' /\ StreamInv' /\ ShutInv' /\ HolderInv'
    BY <1>5, <2>1, <2>2, <2>3 DEF CloseAgain, FlightInv, ConnectInv, StreamInv,
       ShutInv, HolderInv
  <2>7. SocketInv'
    BY <1>5, <2>3, <2>4 DEF CloseAgain, SocketInv, ClientTypeOK, Sockets, Closed,
       Mine, Other
  <2> QED BY <2>2, <2>5, <2>6, <2>7
<1>6. CASE ConnectGivesUp
  <2>1. /\ Busy /\ Top.at = "connect"
    BY <1>6, AtTopIs DEF ConnectGivesUp
  <2>2. Now("return", Top.sock, Top.ret, Depth)
    BY <1>6, <2>1, GoesTo DEF ConnectGivesUp, Goes, Places, Idle
  <2>3. socket_ = INVALID_SOCKET /\ shut = {} /\ shut' = {}
    BY <1>6, <2>1, NoSocketShut DEF ConnectGivesUp, ConnectInv, system
  <2>4. ClientTypeOK'
    BY <1>6, <2>2 DEF ConnectGivesUp, ClientTypeOK, Now, system
  <2>5. FlightInv' /\ ConnectInv' /\ SocketInv' /\ StreamInv' /\ ShutInv'
    BY <1>6, <1>p, <1>d, <2>1, <2>2, <2>3 DEF ConnectGivesUp, FlightInv, ConnectInv,
       SocketInv, StreamInv, ShutInv, ClientTypeOK, Now, Idle, system
  <2> QED BY <1>6, <1>h, <2>1, <2>2, <2>4, <2>5 DEF ConnectGivesUp, Now
<1>7. CASE ExchangeFails
  <2>1. /\ Busy /\ Top.at = "exchange"
    BY <1>7, AtTopIs DEF ExchangeFails
  <2>2. Now("finish", Top.sock, Top.ret, Depth)
    BY <1>7, <2>1, GoesTo DEF ExchangeFails, Places
  <2>3. ClientTypeOK'
    BY <1>7, <2>2 DEF ExchangeFails, ClientTypeOK, Now, client, system
  <2>4. FlightInv' /\ ConnectInv' /\ SocketInv' /\ StreamInv' /\ ShutInv'
    BY <1>7, <1>p, <1>d, <2>1, <2>2 DEF ExchangeFails, FlightInv, ConnectInv,
       SocketInv, StreamInv, ShutInv, Now, Idle, client, system
  <2> QED BY <1>7, <1>h, <2>1, <2>2, <2>3, <2>4 DEF ExchangeFails, Now
<1>8. CASE Exchange
  <2>1. /\ Busy /\ Top.at = "exchange" /\ Top.sock \notin shut
    BY <1>8, AtTopIs DEF Exchange
  <2>2. \E p \in {"close", "follow"} : Now(p, Top.sock, TRUE, Depth)
    BY <1>8, <2>1, Answers
  <2>3. PICK p \in {"close", "follow"} : Now(p, Top.sock, TRUE, Depth)
    BY <2>2
  <2>4. socket_ \notin shut /\ socket_' \notin shut'
    BY <1>8, <2>1 DEF Exchange, StreamInv, client, system
  <2>5. ClientTypeOK'
    BY <1>8, <2>3 DEF Exchange, ClientTypeOK, Now, client, system
  <2>6. FlightInv' /\ ConnectInv' /\ SocketInv' /\ StreamInv' /\ ShutInv'
    BY <1>8, <1>p, <1>d, <2>1, <2>3, <2>4 DEF Exchange, FlightInv, ConnectInv,
       SocketInv, StreamInv, ShutInv, Now, Idle, client, system
  <2> QED BY <1>8, <1>h, <2>1, <2>3, <2>5, <2>6 DEF Exchange, Now
<1>9. CASE CloseNow
  <2>1. /\ Busy /\ Top.at = "close"
    BY <1>9, AtTopIs DEF CloseNow
  <2>2. Now("follow", Top.sock, Top.ret, Depth)
    BY <1>9, <2>1, GoesTo DEF CloseNow, Places
  <2>3. /\ socket_' = INVALID_SOCKET /\ bare' = FALSE /\ shut' = {} /\ SocketInv'
        /\ fds' \in [Fds -> {Closed, Mine, Other}]
    BY <1>9, SocketClosed DEF CloseNow
  <2>4. ClientTypeOK'
    BY <1>9, <2>2, <2>3 DEF CloseNow, ClientTypeOK, Now, Sockets
  <2>5. FlightInv' /\ ConnectInv' /\ StreamInv' /\ ShutInv'
    BY <1>9, <1>p, <1>d, <2>1, <2>2, <2>3 DEF CloseNow, FlightInv, ConnectInv,
       StreamInv, ShutInv, Now, Idle
  <2> QED BY <1>9, <1>h, <2>1, <2>2, <2>3, <2>4, <2>5 DEF CloseNow, Now
<1>10. CASE Redirect
  <2>1. /\ Busy /\ Top.at = "follow" /\ Top.redirect_count_ > 0
    BY <1>10, AtTopIs DEF Redirect
  <2>2. Now("send", INVALID_SOCKET, FALSE, Depth + 1)
    <3>1. /\ Top.redirect_count_ - 1 \in 0..MaxRedirects
          /\ Top.authorization_count_ \in 0..MaxAuthorizations
      BY <1>b, <1>p, <2>1, RequestFields
    <3> DEFINE m == Top.redirect_count_ - 1
               n == Top.authorization_count_
    <3>2. requests' = Append([requests EXCEPT ![Depth].at = "redirected"], Request(m, n))
      BY <1>10 DEF Redirect
    <3>3. m \in 0..MaxRedirects /\ n \in 0..MaxAuthorizations /\ "redirected" \in Outer
      BY <3>1 DEF Outer
    <3>4. m = Top.redirect_count_ - 1 /\ n = Top.authorization_count_
      OBVIOUS
    <3> HIDE DEF m, n
    <3> QED BY <2>1, <3>2, <3>3, <3>4, AsksAgain
  <2>3. ClientTypeOK'
    BY <1>10, <2>2 DEF Redirect, ClientTypeOK, Now, client, system
  <2>4. FlightInv' /\ ConnectInv' /\ SocketInv' /\ StreamInv' /\ ShutInv'
    BY <1>10, <1>p, <1>d, <2>1, <2>2 DEF Redirect, FlightInv, ConnectInv,
       SocketInv, StreamInv, ShutInv, Now, Idle, client, system
  <2> QED BY <1>10, <1>h, <2>1, <2>2, <2>3, <2>4 DEF Redirect, Now
<1>11. CASE RedirectElsewhere
  <2>1. /\ Busy /\ Top.at = "follow"
    BY <1>11, AtTopIs DEF RedirectElsewhere
  <2>2. PICK b \in BOOLEAN : Now("redirected", Top.sock, b, Depth)
    BY <1>11, <2>1, RedirectedTo
  <2>3. ClientTypeOK'
    BY <1>11, <2>2 DEF RedirectElsewhere, ClientTypeOK, Now, client, system
  <2>4. FlightInv' /\ ConnectInv' /\ SocketInv' /\ StreamInv' /\ ShutInv'
    BY <1>11, <1>p, <1>d, <2>1, <2>2 DEF RedirectElsewhere, FlightInv, ConnectInv,
       SocketInv, StreamInv, ShutInv, Now, Idle, client, system
  <2> QED BY <1>11, <1>h, <2>1, <2>2, <2>3, <2>4 DEF RedirectElsewhere, Now
<1>12. CASE Authorize
  <2>1. /\ Busy /\ Top.at \in {"follow", "redirected"}
    BY <1>12, AtTopIs DEF Authorize
  <2>2. CASE Now("send", INVALID_SOCKET, FALSE, Depth + 1)
    <3>1. ClientTypeOK'
      BY <1>12, <2>2 DEF Authorize, ClientTypeOK, Now, client, system
    <3>2. FlightInv' /\ ConnectInv' /\ SocketInv' /\ StreamInv' /\ ShutInv'
      BY <1>12, <1>p, <1>d, <2>1, <2>2 DEF Authorize, FlightInv, ConnectInv,
         SocketInv, StreamInv, ShutInv, Now, Idle, client, system
    <3> QED BY <1>12, <1>h, <2>1, <2>2, <3>1, <3>2 DEF Authorize, Now
  <2>3. CASE Now("finish", Top.sock, Top.ret, Depth)
    <3>1. ClientTypeOK'
      BY <1>12, <2>3 DEF Authorize, ClientTypeOK, Now, client, system
    <3>2. FlightInv' /\ ConnectInv' /\ SocketInv' /\ StreamInv' /\ ShutInv'
      BY <1>12, <1>p, <1>d, <2>1, <2>3 DEF Authorize, FlightInv, ConnectInv,
         SocketInv, StreamInv, ShutInv, Now, Idle, client, system
    <3> QED BY <1>12, <1>h, <2>1, <2>3, <3>1, <3>2 DEF Authorize, Now
  <2>4. CASE /\ Top.authorization_count_ < MaxAuthorizations
             /\ requests' = Append([requests EXCEPT ![Depth].at = "authorized"],
                                   Request(Top.redirect_count_,
                                           Top.authorization_count_ + 1))
    <3>1. /\ Top.redirect_count_ \in 0..MaxRedirects
          /\ Top.authorization_count_ + 1 \in 0..MaxAuthorizations
      BY <1>b, <1>p, <2>1, <2>4, RequestFields
    <3>2. Now("send", INVALID_SOCKET, FALSE, Depth + 1)
      BY <2>1, <2>4, <3>1, AsksAgain DEF Outer
    <3> QED BY <2>2, <3>2
  <2>5. CASE requests' = [requests EXCEPT ![Depth].at = "finish"]
    <3>1. Now("finish", Top.sock, Top.ret, Depth)
      BY <2>1, <2>5, GoesTo DEF Goes, Places
    <3> QED BY <2>3, <3>1
  <2> QED BY <1>12, <2>4, <2>5 DEF Authorize
<1>13. CASE Authorized
  <2>1. /\ Busy /\ Top.at = "authorized"
    BY <1>13, AtTopIs DEF Authorized
  <2>2. Now("finish", Top.sock, Top.ret, Depth)
    BY <1>13, <2>1, GoesTo DEF Authorized, Places
  <2>3. ClientTypeOK'
    BY <1>13, <2>2 DEF Authorized, ClientTypeOK, Now, client, system
  <2>4. FlightInv' /\ ConnectInv' /\ SocketInv' /\ StreamInv' /\ ShutInv'
    BY <1>13, <1>p, <1>d, <2>1, <2>2 DEF Authorized, FlightInv, ConnectInv,
       SocketInv, StreamInv, ShutInv, Now, Idle, client, system
  <2> QED BY <1>13, <1>h, <2>1, <2>2, <2>3, <2>4 DEF Authorized, Now
<1>14. CASE Finish
  <2>1. /\ Busy /\ Top.at = "finish"
    BY <1>14, AtTopIs DEF Finish
  <2>2. Now("return", Top.sock, Top.ret, Depth) /\ in_flight' = in_flight - 1
    BY <1>14, <2>1, GoesTo DEF Finish, Places, Idle
  <2>3. CASE should_close \/ ~keep_alive_ \/ ~Top.ret
    <3>1. /\ socket_' = INVALID_SOCKET /\ shut' = {} /\ SocketInv'
          /\ fds' \in [Fds -> {Closed, Mine, Other}] /\ bare' = FALSE
      BY <1>14, <2>3, SocketClosed DEF Finish
    <3>2. ClientTypeOK'
      <4>1. in_flight' \in Int
        BY <2>2 DEF ClientTypeOK
      <4>2. UNCHANGED <<keep_alive_, tried, other, should_close, connecting, twice, addresses>>
        BY <1>14 DEF Finish
      <4>3. shut' \subseteq Fds /\ socket_' \in Sockets /\ bare' \in BOOLEAN
        BY <3>1 DEF Sockets
      <4> QED BY <2>2, <3>1, <4>1, <4>2, <4>3 DEF ClientTypeOK, Now
    <3>3. FlightInv' /\ ConnectInv' /\ StreamInv' /\ ShutInv'
      BY <1>14, <1>p, <1>d, <2>1, <2>2, <3>1 DEF Finish, FlightInv, ConnectInv,
         StreamInv, ShutInv, Now, Idle, ClientTypeOK
    <3> QED BY <1>14, <1>h, <2>1, <2>2, <3>1, <3>2, <3>3 DEF Finish, Now
  <2>4. CASE ~(should_close \/ ~keep_alive_ \/ ~Top.ret)
    <3>1. UNCHANGED <<fds, shut, socket_, bare>>
      BY <1>14, <2>4 DEF Finish
    <3>2. ClientTypeOK'
      BY <1>14, <2>2, <3>1 DEF Finish, ClientTypeOK, Now
    <3>3. FlightInv' /\ ConnectInv' /\ SocketInv' /\ StreamInv' /\ ShutInv'
      BY <1>14, <1>p, <1>d, <2>1, <2>2, <2>4, <3>1 DEF Finish, FlightInv, ConnectInv,
         SocketInv, StreamInv, ShutInv, Now, Idle, ClientTypeOK
    <3> QED BY <1>14, <1>h, <2>1, <2>2, <3>2, <3>3 DEF Finish, Now
  <2> QED BY <2>3, <2>4
<1>15. CASE ReturnInner
  <2>1. /\ Busy /\ Top.at = "return"
    BY <1>15, AtTopIs DEF ReturnInner
  <2>2. PICK p \in Outer, f \in Sockets, b \in BOOLEAN : Now(p, f, b, Depth - 1)
    BY <1>15, <2>1, ReturnsTo
  <2>3. /\ UNCHANGED <<client, system, holder>>
    BY <1>15 DEF ReturnInner
  <2>4. ClientTypeOK'
    BY <2>2, <2>3 DEF ClientTypeOK, Now, client, system
  <2>5. FlightInv' /\ ConnectInv' /\ SocketInv' /\ StreamInv' /\ ShutInv'
    BY <1>p, <1>d, <2>1, <2>2, <2>3 DEF FlightInv, ConnectInv, SocketInv, StreamInv,
       ShutInv, Now, Idle, Outer, client, system
  <2> QED BY <1>h, <2>1, <2>2, <2>3, <2>4, <2>5 DEF Now
<1>16. CASE Return
  <2>1. /\ Busy /\ Top.at = "return" /\ Depth = 1 /\ UNCHANGED <<client, system>>
    BY <1>16, AtTopIs DEF Return
  <2>2. requests' = <<>> /\ ~Busy' /\ Depth' = 0
    BY <1>16 DEF Return, Busy, Depth
  <2>3. ClientTypeOK'
    <3>1. requests' \in Seq(Requests)
      BY <2>2
    <3> QED BY <2>1, <3>1 DEF ClientTypeOK, client, system
  <2>4. StackInv'
    BY <2>2 DEF StackInv
  <2>5. FlightInv' /\ ConnectInv' /\ SocketInv' /\ StreamInv' /\ ShutInv' /\ HolderInv'
    <3> HIDE DEF Busy
    <3>1. ~Busy'
      BY <2>2
    <3> QED BY <2>1, <3>1 DEF FlightInv, ConnectInv, SocketInv, StreamInv, ShutInv,
           HolderInv, Idle, client, system
  <2> QED BY <2>3, <2>4, <2>5
<1>17. ASSUME NEW t \in Threads, LockRequest(t)
       PROVE  ClientInv'
  <2>1. ~Busy /\ UNCHANGED <<client, system>> /\ holder' = t
    BY <1>17 DEF LockRequest, HolderInv
  <2>2. Now("send", INVALID_SOCKET, FALSE, 1)
    BY <1>17, FirstRequest DEF LockRequest
  <2>3. ClientTypeOK'
    BY <2>1, <2>2 DEF ClientTypeOK, Now, client, system
  <2>4. FlightInv' /\ ConnectInv' /\ SocketInv' /\ StreamInv' /\ ShutInv' /\ HolderInv'
    BY <1>b, <2>1, <2>2 DEF FlightInv, ConnectInv, SocketInv, StreamInv, ShutInv,
       HolderInv, Now, Idle, client, system
  <2> QED BY <2>2, <2>3, <2>4 DEF Now
<1>18. ASSUME NEW s \in Stoppers, Stop(s)
       PROVE  ClientInv'
  <2>1. UNCHANGED <<requests, holder>> /\ ~connecting
    BY <1>18 DEF Stop
  <2>2. UNCHANGED <<Busy, Depth, Top>> /\ StackInv'
    BY <2>1, NothingChanged
  <2>3. CASE in_flight > 0
    <3>1. /\ shut' = shut \cup ({socket_} \cap Fds) /\ should_close' = TRUE
          /\ UNCHANGED <<fds, socket_, bare>>
      BY <1>18, <2>3 DEF Stop
    <3>2. Busy /\ (Top.at = "return" => Depth > 1)
      BY <1>d, <2>3 DEF FlightInv, Idle
    <3>3. ClientTypeOK'
      BY <1>18, <3>1 DEF Stop, ClientTypeOK
    <3>4. FlightInv' /\ ConnectInv' /\ SocketInv' /\ StreamInv' /\ ShutInv' /\ HolderInv'
      BY <1>18, <2>1, <2>2, <3>1, <3>2 DEF Stop, FlightInv, ConnectInv, SocketInv,
         StreamInv, ShutInv, HolderInv
    <3> QED BY <2>2, <3>3, <3>4
  <2>4. CASE ~(in_flight > 0)
    <3>1. /\ socket_' = INVALID_SOCKET /\ shut' = {} /\ SocketInv'
          /\ fds' \in [Fds -> {Closed, Mine, Other}] /\ bare' = FALSE
      BY <1>18, <2>4, SocketClosed DEF Stop
    <3>2. ~(Busy /\ Top.at = "exchange")
      BY <1>p, <1>d, <2>4 DEF FlightInv, Idle
    <3>3. ClientTypeOK'
      BY <1>18, <2>4, <3>1 DEF Stop, ClientTypeOK, Sockets
    <3>4. FlightInv' /\ ConnectInv' /\ StreamInv' /\ ShutInv' /\ HolderInv'
      BY <1>18, <1>b, <2>1, <2>2, <2>4, <3>1, <3>2 DEF Stop, FlightInv, ConnectInv,
         StreamInv, ShutInv, HolderInv
    <3> QED BY <2>2, <3>1, <3>3, <3>4
  <2> QED BY <2>3, <2>4
<1>19. CASE OpenOther
  <2>1. UNCHANGED <<requests, holder, client, shut>> /\ other = INVALID_SOCKET
    BY <1>19 DEF OpenOther
  <2>2. UNCHANGED <<Busy, Depth, Top>> /\ StackInv'
    BY <2>1, NothingChanged
  <2>3. PICK f \in Fds : fds[f] = Closed /\ other' = f /\ fds' = [fds EXCEPT ![f] = Other]
    BY <1>19 DEF OpenOther
  <2>4. ClientTypeOK'
    BY <2>1, <2>3 DEF ClientTypeOK, Sockets, client
  <2>5. SocketInv'
    BY <2>1, <2>3 DEF SocketInv, ClientTypeOK, Sockets, client, Closed, Mine, Other
  <2>6. FlightInv' /\ ConnectInv' /\ StreamInv' /\ ShutInv' /\ HolderInv'
    BY <2>1, <2>2 DEF FlightInv, ConnectInv, StreamInv, ShutInv, HolderInv, client
  <2> QED BY <2>2, <2>4, <2>5, <2>6
<1>20. CASE CloseOther
  <2>1. /\ UNCHANGED <<requests, holder, client>> /\ other \in Fds
        /\ other' = INVALID_SOCKET /\ shut' = shut \ {other}
        /\ fds' = [g \in Fds |-> IF g = other THEN Closed ELSE fds[g]]
    BY <1>20 DEF CloseOther, CloseFd, ClientTypeOK, Sockets
  <2>2. UNCHANGED <<Busy, Depth, Top>> /\ StackInv'
    BY <2>1, NothingChanged
  <2>3. ClientTypeOK'
    BY <2>1 DEF ClientTypeOK, Sockets, client
  <2>4. SocketInv'
    BY <1>b, <2>1 DEF SocketInv, ClientTypeOK, Sockets, client, Closed, Mine, Other
  <2>5. FlightInv' /\ ConnectInv' /\ StreamInv' /\ HolderInv'
    BY <2>1, <2>2 DEF FlightInv, ConnectInv, StreamInv, HolderInv, client
  <2>6. ShutInv'
    BY <2>1, <2>2 DEF ShutInv, client
  <2> QED BY <2>2, <2>3, <2>4, <2>5, <2>6
<1>21. CASE Secured
  <2>1. /\ Busy /\ Top.at = "secure"
    BY <1>21, AtTopIs DEF Secured
  <2>2. socket_ # INVALID_SOCKET /\ socket_ \in Sockets /\ socket_ \notin shut
    BY <2>1 DEF ConnectInv, ShutInv, ClientTypeOK
  <2>3. /\ Now("exchange", socket_, Top.ret, Depth) /\ in_flight' = in_flight + 1
    BY <1>21, <2>1, <2>2, TakesSocket DEF Secured
  <2>4. ClientTypeOK'
    <3>1. in_flight' \in Int
      BY <2>3 DEF ClientTypeOK
    <3> QED BY <1>21, <2>3, <3>1 DEF Secured, ClientTypeOK, Now, system
  <2>5. FlightInv' /\ ConnectInv' /\ SocketInv' /\ StreamInv' /\ ShutInv'
    BY <1>21, <1>p, <1>d, <2>1, <2>2, <2>3 DEF Secured, FlightInv, ConnectInv, SocketInv,
       StreamInv, ShutInv, ClientTypeOK, Now, system, Idle
  <2> QED BY <1>21, <1>h, <2>1, <2>3, <2>4, <2>5 DEF Secured, Now
<1>22. CASE SecureFails
  <2>1. /\ Busy /\ Top.at = "secure"
    BY <1>22, AtTopIs DEF SecureFails
  <2>2. Now("return", Top.sock, Top.ret, Depth)
    BY <1>22, <2>1, GoesTo DEF SecureFails, Places, Idle
  <2>3. /\ socket_' = INVALID_SOCKET /\ bare' = FALSE /\ shut' = {} /\ SocketInv'
        /\ fds' \in [Fds -> {Closed, Mine, Other}]
    BY <1>22, SocketClosed DEF SecureFails
  <2>4. ClientTypeOK'
    BY <1>22, <2>2, <2>3 DEF SecureFails, ClientTypeOK, Now, Sockets
  <2>5. FlightInv' /\ ConnectInv' /\ StreamInv' /\ ShutInv'
    BY <1>22, <1>p, <1>d, <2>1, <2>2, <2>3 DEF SecureFails, FlightInv, ConnectInv,
       StreamInv, ShutInv, Now, Idle
  <2> QED BY <1>22, <1>h, <2>1, <2>2, <2>3, <2>4, <2>5 DEF SecureFails, Now
<1>23. CASE ProxyRefuses
  <2>1. /\ Busy /\ Top.at = "secure"
    BY <1>23, AtTopIs DEF ProxyRefuses
  <2>2. Now("return", Top.sock, TRUE, Depth)
    <3>1. requests' = AnsweredAt(requests, Depth, 407, "return")
      BY <1>23 DEF ProxyRefuses, AnsweredAt
    <3> QED BY <2>1, <3>1, Responds DEF Statuses, Places, Idle
  <2>3. socket_ \notin shut
    BY <2>1 DEF ShutInv
  <2>4. ClientTypeOK'
    BY <1>23, <2>2 DEF ProxyRefuses, ClientTypeOK, Now, system
  <2>5. FlightInv' /\ ConnectInv' /\ SocketInv' /\ StreamInv' /\ ShutInv'
    BY <1>23, <1>p, <1>d, <2>1, <2>2, <2>3 DEF ProxyRefuses, FlightInv, ConnectInv,
       SocketInv, StreamInv, ShutInv, Now, Idle, system
  <2> QED BY <1>23, <1>h, <2>1, <2>2, <2>4, <2>5 DEF ProxyRefuses, Now
<1>24. CASE ProxyCloses
  <2>1. /\ Busy /\ Top.at = "secure"
    BY <1>24, AtTopIs DEF ProxyCloses
  <2>2. Now("relocking", Top.sock, Top.ret, Depth)
    BY <1>24, <2>1, GoesTo DEF ProxyCloses, Places, Idle
  <2>3. ClientTypeOK'
    BY <1>24, <2>2 DEF ProxyCloses, ClientTypeOK, Now, client, system
  <2>4. FlightInv' /\ ConnectInv' /\ SocketInv' /\ StreamInv' /\ ShutInv'
    BY <1>24, <1>p, <1>d, <2>1, <2>2 DEF ProxyCloses, FlightInv, ConnectInv,
       SocketInv, StreamInv, ShutInv, Now, Idle, client, system
  <2> QED BY <1>24, <1>h, <2>1, <2>2, <2>3, <2>4 DEF ProxyCloses, Now
<1>25. ASSUME UNCHANGED <<holder, requests, client, system>>
       PROVE  ClientInv'
  <2>1. UNCHANGED <<Busy, Depth, Top>> /\ StackInv'
    BY <1>25, NothingChanged
  <2>2. ClientTypeOK'
    BY <1>25 DEF ClientTypeOK, client, system
  <2>3. FlightInv' /\ ConnectInv' /\ SocketInv' /\ StreamInv' /\ ShutInv' /\ HolderInv'
    BY <1>25, <2>1 DEF FlightInv, ConnectInv, SocketInv, StreamInv, ShutInv, HolderInv,
       client, system
  <2> QED BY <2>1, <2>2, <2>3
<1>26. ASSUME NEW t \in Threads, Send(t)
       PROVE  ClientInv'
  BY <1>25, <1>26 DEF Send
<1>27. CASE UNCHANGED vars
  BY <1>25, <1>27 DEF vars
<1>28. CASE Sending
  BY <1>1, <1>2, <1>3, <1>4, <1>5, <1>6, <1>7, <1>8, <1>9, <1>10, <1>11, <1>12, <1>13,
     <1>14, <1>15, <1>16, <1>28, <1>21, <1>22, <1>23, <1>24 DEF Sending
<1> HIDE DEF ClientInv
<1> QED BY <1>17, <1>18, <1>19, <1>20, <1>26, <1>27, <1>28 DEF Next
-----------------------------------------------------------------------------
\* What is true of every state of the client.
THEOREM ClientSafe == Spec => []ClientInv
<1>1. Init => ClientInv
  BY ClientInit
<1>2. ClientInv /\ [Next]_vars => ClientInv'
  BY ClientNext
<1> QED BY <1>1, <1>2, PTL DEF Spec

\* While a request reads and writes, its stream is the client's connection, and
\* the client closes no socket of other code (but after a number that it closed
\* twice): process_socket, stop() and close_socket of httplib.h.
THEOREM StreamAlwaysKept == Spec => []StreamKept
<1>1. ClientInv => StreamKept
  <2> SUFFICES ASSUME ClientInv
               PROVE  StreamKept
    OBVIOUS
  <2>1. AtTop("exchange") => Busy /\ Top.at = "exchange"
    BY AtTopIs
  <2> QED BY <2>1 DEF ClientInv, StreamInv, SocketInv, StreamKept
<1> QED BY <1>1, ClientSafe, PTL

\* No connection of the client is left open and forgotten, by a redirection, an
\* authorization, a reconnection, TLS that fails or a stop(), until one has closed
\* a number twice: send() of httplib.h.
THEOREM NeverLeaks == Spec => []NoneLeaked
<1>1. ClientInv => NoneLeaked
  BY DEF ClientInv, SocketInv, NoneLeaked
<1> QED BY <1>1, ClientSafe, PTL

\* A connection is kept between requests only when it should be, but for one
\* without TLS that a refusing proxy leaves behind: the last block of send(), with
\* the flag that stop() sets.
THEOREM OnlyKeptRightly == Spec => []KeptRightly
<1>1. ClientInv => KeptRightly
  <2> SUFFICES ASSUME ClientInv, requests = <<>>
               PROVE  socket_ = INVALID_SOCKET
                      \/ ((keep_alive_ \/ bare) /\ socket_ \notin shut)
    BY DEF KeptRightly
  <2>1. ~Busy
    BY DEF Busy
  <2> QED BY <2>1 DEF ClientInv, ShutInv, ClientTypeOK
<1> QED BY <1>1, ClientSafe, PTL

\* The requests that a request makes are bounded by its redirections and its
\* authorizations, and the count of those in flight is right: redirect(),
\* handle_request and send() of httplib.h.
THEOREM NestingBounded == Spec => []NestingBound
<1>1. ASSUME ClientInv
      PROVE  NestingBound
  <2> DEFINE Open == {i \in 1..Depth : requests[i].at \notin
                        {"send", "connect", "secure", "relocking", "return"}}
  <2>1. Depth \in Nat
    BY <1>1, LenProperties DEF Depth, ClientInv, ClientTypeOK
  <2>2. CASE Busy
    <3>1. /\ Depth >= 1 /\ Top \in Requests /\ Depth \in 1..Depth
          /\ \A i \in 1..Depth : requests[i] \in Requests
      BY <1>1, <2>2, <2>1, TopType DEF ClientInv
    <3>2. Depth <= 1 + (MaxRedirects - requests[Depth].redirect_count_)
                     + requests[Depth].authorization_count_
      BY <1>1, <3>1 DEF ClientInv, StackInv
    <3>3. Depth <= 1 + MaxRedirects + MaxAuthorizations
      BY <2>1, <3>1, <3>2, RequestFields, Bounds
    <3>4. \A i \in 1..(Depth - 1) : i \in 1..Depth /\ i # Depth /\ requests[i].at \in Outer
      BY <1>1, <2>1 DEF ClientInv, StackInv
    <3>5. CASE Top.at \in Idle
      <4>1. Open = 1..(Depth - 1)
        BY <2>1, <3>1, <3>4, <3>5 DEF Outer, Idle, Top
      <4>2. Cardinality(1..(Depth - 1)) = Depth - 1
        BY <2>1, <3>1, FS_Interval
      <4>3. in_flight = Depth - 1
        BY <1>1, <2>2, <3>5 DEF ClientInv, FlightInv
      <4> HIDE DEF Open
      <4>4. in_flight = Cardinality(Open)
        BY <4>1, <4>2, <4>3
      <4> QED BY <3>3, <4>4 DEF NestingBound, Open
    <3>6. CASE Top.at \notin Idle
      <4>1. Open = 1..Depth
        BY <2>1, <3>1, <3>4, <3>6 DEF Outer, Idle, Top
      <4>2. Cardinality(1..Depth) = Depth
        BY <2>1, <3>1, FS_Interval
      <4>3. in_flight = Depth
        BY <1>1, <2>2, <3>6 DEF ClientInv, FlightInv
      <4> HIDE DEF Open
      <4>4. in_flight = Cardinality(Open)
        BY <4>1, <4>2, <4>3
      <4> QED BY <3>3, <4>4 DEF NestingBound, Open
    <3> QED BY <3>5, <3>6
  <2>3. CASE ~Busy
    <3>1. Depth = 0
      BY <2>3 DEF Busy, Depth
    <3>2. Open = {}
      BY <3>1
    <3>3. in_flight = 0
      BY <1>1, <2>3 DEF ClientInv, FlightInv
    <3> HIDE DEF Open
    <3>4. in_flight = Cardinality(Open)
      BY <3>2, <3>3, FS_EmptySet
    <3> QED BY <3>1, <3>4, Bounds DEF NestingBound, Open
  <2> QED BY <2>2, <2>3
<1> QED BY <1>1, ClientSafe, PTL
=============================================================================
