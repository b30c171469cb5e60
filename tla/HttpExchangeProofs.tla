------------------------- MODULE HttpExchangeProofs -------------------------
(***************************************************************************)
(* Proofs about HttpRequest and HttpExchange for every set of exchanges,   *)
(* handlers, requests, limits and deadlines.  The first part is what the   *)
(* parse of a request establishes, by inductions over its header fields    *)
(* and its URL parameters; the second is the invariant of the exchanges.   *)
(***************************************************************************)
EXTENDS HttpExchange, TLAPS, SequenceTheorems, WellFoundedInduction

(***************************************************************************)
(* Induction over the naturals, with sets in place of predicates, and what *)
(* a parse folded over a sequence computes.                                *)
(***************************************************************************)
\* The order of the naturals is well founded: used for the header fields and
\* the URL parameters, of which there is any number.
LEMMA LeastElement ==
  ASSUME NEW S \in SUBSET Nat, S # {}
  PROVE  \E n \in S : \A m \in S : n <= m
<1> DEFINE R == OpToRel(<, Nat)
<1>1. IsWellFoundedOn(R, Nat)
  BY NatLessThanWellFounded
<1>2. PICK n \in S : \A m \in S : <<m, n>> \notin R
  BY <1>1, WFMin
<1>3. \A m \in S : m < n => <<m, n>> \in R
  BY DEF OpToRel
<1> HIDE DEF R
<1>4. \A m \in S : ~ (m < n)
  BY <1>2, <1>3
<1> QED
  BY <1>4

\* Induction up to the number of header fields or URL parameters.
LEMMA InductionUpTo ==
  ASSUME NEW L \in Nat, NEW S, 0 \in S, \A n \in 1 .. L : n - 1 \in S => n \in S
  PROVE  0 .. L \subseteq S
<1> DEFINE B == (0 .. L) \ S
<1>1. SUFFICES ASSUME B # {} PROVE FALSE
  OBVIOUS
<1>2. PICK n \in B : \A m \in B : n <= m
  <2>1. B \in SUBSET Nat
    OBVIOUS
  <2> HIDE DEF B
  <2> QED
    BY <1>1, <2>1, LeastElement
<1>3. n \in 1 .. L /\ n - 1 \in 0 .. L /\ n - 1 \notin B
  BY <1>2
<1> QED
  BY <1>2, <1>3

(***************************************************************************)
(* The header fields.                                                      *)
(***************************************************************************)
\* f is what is known after each number of the header fields, up to n.
FieldsUpTo(f, auth, r, n) ==
  f = [k \in 0 .. n |-> IF k = 0 THEN NoFields ELSE ParseField(auth, f[k - 1], r.fields[k])]

FieldsRead(auth, r) == CHOOSE f : FieldsUpTo(f, auth, r, Len(r.fields))

\* ParseFields is what is known after the last header field.
LEMMA ParseFieldsIsLast ==
  ASSUME NEW auth, NEW r
  PROVE  ParseFields(auth, r) = FieldsRead(auth, r)[Len(r.fields)]
  BY DEF ParseFields, FieldsRead, FieldsUpTo

\* The loop over the header fields is well defined for every request.
LEMMA FieldsUpToExists ==
  ASSUME NEW auth, NEW r \in HttpRequests
  PROVE  \E f : FieldsUpTo(f, auth, r, Len(r.fields))
<1> DEFINE L == Len(r.fields)
           N == {n \in 0 .. L : \E f : FieldsUpTo(f, auth, r, n)}
<1>0. L \in Nat
  BY DEF HttpRequests
<1>1. 0 \in N
  <2>1. \A k \in 0 .. 0 : k = 0
    OBVIOUS
  <2>2. FieldsUpTo([k \in 0 .. 0 |-> NoFields], auth, r, 0)
    BY <2>1 DEF FieldsUpTo
  <2>3. 0 \in 0 .. L
    BY <1>0
  <2> QED
    BY <2>2, <2>3
<1>2. ASSUME NEW n \in 1 .. L, n - 1 \in N
      PROVE  n \in N
  <2>1. PICK f : FieldsUpTo(f, auth, r, n - 1)
    BY <1>2
  <2> DEFINE g == [k \in 0 .. n |-> IF k = n THEN ParseField(auth, f[n - 1], r.fields[n])
                                             ELSE f[k]]
  <2>2. ASSUME NEW k \in 0 .. n
        PROVE  g[k] = IF k = 0 THEN NoFields ELSE ParseField(auth, g[k - 1], r.fields[k])
    <3>1. CASE k = n
      <4>1. n # 0 /\ n - 1 \in 0 .. n /\ n - 1 # n
        OBVIOUS
      <4>2. g[n - 1] = f[n - 1] /\ g[n] = ParseField(auth, f[n - 1], r.fields[n])
        BY <4>1
      <4> QED
        BY <3>1, <4>1, <4>2
    <3>2. CASE k # n
      <4>1. k \in 0 .. n - 1 /\ (k # 0 => k - 1 \in 0 .. n /\ k - 1 # n)
        BY <3>2
      <4>2. f[k] = IF k = 0 THEN NoFields ELSE ParseField(auth, f[k - 1], r.fields[k])
        BY <4>1, <2>1 DEF FieldsUpTo
      <4>3. g[k] = f[k] /\ (k # 0 => g[k - 1] = f[k - 1])
        BY <3>2, <4>1
      <4> QED
        BY <4>2, <4>3
    <3> QED
      BY <3>1, <3>2
  <2>3. g = [k \in 0 .. n |-> g[k]]
    OBVIOUS
  <2> HIDE DEF g
  <2>4. FieldsUpTo(g, auth, r, n)
    BY <2>2, <2>3 DEF FieldsUpTo
  <2> QED
    BY <2>4
<1>3. 0 .. L \subseteq N
  <2> HIDE DEF N, L
  <2> QED
    BY <1>0, <1>1, <1>2, InductionUpTo
<1>4. L \in N
  BY <1>0, <1>3
<1> QED
  BY <1>4

\* One header field after another.
LEMMA FieldsReadStep ==
  ASSUME NEW auth, NEW r \in HttpRequests
  PROVE  /\ FieldsRead(auth, r)[0] = NoFields
         /\ \A k \in 1 .. Len(r.fields) :
              FieldsRead(auth, r)[k] = ParseField(auth, FieldsRead(auth, r)[k - 1], r.fields[k])
<1>1. FieldsUpTo(FieldsRead(auth, r), auth, r, Len(r.fields))
  BY FieldsUpToExists DEF FieldsRead
<1>2. Len(r.fields) \in Nat
  BY DEF HttpRequests
<1>3. 0 \in 0 .. Len(r.fields) /\ \A k \in 1 .. Len(r.fields) : k \in 0 .. Len(r.fields) /\ k # 0
  BY <1>2
<1> QED
  BY <1>1, <1>3 DEF FieldsUpTo

\* An account of header fields: an outcome, and the values of each credential.
IsAccount(a) ==
  /\ DOMAIN a = {"status", "count", "content_length", "host", "te", "expect",
                 "authorization", "user", "key", "format", "database"}
  /\ a.status \in {200, 400, 413, 431}
  /\ a.authorization \in Seq(STRING) /\ a.user \in Seq(STRING) /\ a.key \in Seq(STRING)

CredentialNames == {"authorization", "user", "key"}

\* The account b is acc with what one more header field says.
Adds(auth, acc, f, b) ==
  /\ IsAccount(b)
  /\ b.status = 200 =>
       /\ acc.status = 200
       /\ \A n \in CredentialNames : Credential(auth, n) =>
            b[n] = IF f.name = n THEN Append(acc[n], f.value) ELSE acc[n]

\* What a good header field does to the account of each credential: a field of
\* a credential the handler asks for adds its value, others change none.
LEMMA ParseFieldEffect ==
  ASSUME NEW auth, NEW acc, IsAccount(acc), NEW f \in Named
  PROVE  Adds(auth, acc, f, ParseField(auth, acc, f))
<1> DEFINE a == [acc EXCEPT !.count = @ + 1]
           b == ParseField(auth, acc, f)
           Goal(c) == Adds(auth, acc, f, c)
<1>1. IsAccount(a) /\ a.status = acc.status /\ \A n \in CredentialNames : a[n] = acc[n]
  BY DEF Adds, IsAccount, CredentialNames
<1>2. f.value \in STRING /\ f.number \in Int
  BY DEF Named
<1> HIDE DEF a
<1>3. ASSUME NEW s \in {400, 413, 431}
      PROVE  Goal([a EXCEPT !.status = s])
  BY <1>1 DEF Adds, IsAccount
<1>4. CASE acc.status # 200
  BY <1>4 DEF ParseField, Adds
<1>5. CASE acc.status = 200 /\ a.count > MaxHeaders
  <2>1. b = [a EXCEPT !.status = 431]
    BY <1>5 DEF ParseField, a
  <2> HIDE DEF b
  <2>2. Goal(b)
    BY <1>3, <2>1
  <2> QED
    BY <2>2 DEF b
<1>6. CASE acc.status = 200 /\ ~(a.count > MaxHeaders)
  <2> DEFINE failed(status) == [a EXCEPT !.status = status]
             length == ParseContentLength(f.number)
             counted == IF a.content_length # <<>> THEN failed(400)
                        ELSE IF IsGood(length)
                        THEN [a EXCEPT !.content_length = <<length.value>>]
                        ELSE failed(length.status)
  <2>0. b = CASE f.name = "malformed" -> failed(400)
              [] f.name = "content_length" -> counted
              [] f.name = "host" ->
                   IF a.host = "yes" \/ f.value = "" THEN failed(400) ELSE [a EXCEPT !.host = "yes"]
              [] f.name \in {"te", "expect"} -> [a EXCEPT ![f.name] = "yes"]
              [] Credential(auth, f.name) \/ f.name \in {"format", "database"} ->
                   [a EXCEPT ![f.name] = Append(@, f.value)]
              [] OTHER -> a
    BY <1>6 DEF ParseField, a
  <2> HIDE DEF counted, failed
  <2>1. CASE f.name = "malformed"
    <3>1. b = [a EXCEPT !.status = 400]
      BY <2>0, <2>1 DEF Credential, failed
    <3> HIDE DEF b, Goal
    <3>2. Goal(b)
      BY <1>3, <3>1
    <3> QED
      BY <3>2 DEF b, Goal
  <2>2. CASE f.name = "content_length"
    <3>0. ~IsGood(length) => length.status \in {400, 413}
      BY <1>2 DEF ParseContentLength, IsGood, Good, Fail
    <3> HIDE DEF length
    <3>1. \/ \E s \in {400, 413} : b = [a EXCEPT !.status = s]
          \/ \E n : b = [a EXCEPT !.content_length = n]
      <4>1. b = counted
        BY <2>0, <2>2 DEF Credential
      <4>2. CASE counted = failed(400)
        BY <4>1, <4>2 DEF failed
      <4>3. CASE counted = [a EXCEPT !.content_length = <<length.value>>]
        BY ZenonT(60), <4>1, <4>3
      <4>4. CASE ~IsGood(length) /\ counted = failed(length.status)
        BY <3>0, <4>1, <4>4 DEF failed
      <4> QED
        BY <4>2, <4>3, <4>4 DEF counted
    <3>2. ASSUME NEW n
          PROVE  Goal([a EXCEPT !.content_length = n])
      BY <1>1, <1>6, <2>2 DEF Adds, IsAccount, CredentialNames
    <3> HIDE DEF b, Goal
    <3>3. Goal(b)
      BY <1>3, <3>1, <3>2
    <3> QED
      BY <3>3 DEF b, Goal
  <2>3. CASE f.name = "host"
    <3>1. b = [a EXCEPT !.status = 400] \/ b = [a EXCEPT !.host = "yes"]
      BY <2>0, <2>3 DEF Credential, failed
    <3>2. Goal([a EXCEPT !.host = "yes"])
      BY <1>1, <1>6, <2>3 DEF Adds, IsAccount, CredentialNames
    <3> HIDE DEF b, Goal
    <3>3. Goal(b)
      BY <1>3, <3>1, <3>2
    <3> QED
      BY <3>3 DEF b, Goal
  <2>4. CASE f.name \in {"te", "expect"}
    <3>1. b = [a EXCEPT ![f.name] = "yes"]
      BY <2>0, <2>4 DEF Credential, failed
    <3>2. Goal([a EXCEPT ![f.name] = "yes"])
      BY <1>1, <1>6, <2>4 DEF Adds, IsAccount, CredentialNames
    <3> HIDE DEF b, Goal
    <3>3. Goal(b)
      BY <3>1, <3>2
    <3> QED
      BY <3>3 DEF b, Goal
  <2>5. CASE f.name \in {"format", "database"}
    <3>1. b = [a EXCEPT ![f.name] = Append(@, f.value)]
      BY <2>0, <2>5 DEF Credential, failed
    <3>2. Goal([a EXCEPT ![f.name] = Append(@, f.value)])
      BY <1>1, <1>6, <2>5 DEF Adds, IsAccount, CredentialNames
    <3> HIDE DEF b, Goal
    <3>3. Goal(b)
      BY <3>1, <3>2
    <3> QED
      BY <3>3 DEF b, Goal
  <2>6. CASE Credential(auth, f.name)
    <3>1. f.name \in CredentialNames
      BY <2>6 DEF Credential, CredentialNames
    <3>2. b = [a EXCEPT ![f.name] = Append(@, f.value)]
      BY <2>0, <2>6, <3>1 DEF CredentialNames
    <3>3. Append(a[f.name], f.value) \in Seq(STRING)
      BY <1>1, <1>2, <3>1 DEF Adds, IsAccount, CredentialNames
    <3> DEFINE c == [a EXCEPT ![f.name] = Append(@, f.value)]
    <3>4. IsAccount(c)
      <4>1. CASE f.name = "authorization"
        BY <1>1, <3>3, <4>1 DEF IsAccount
      <4>2. CASE f.name = "user"
        BY <1>1, <3>3, <4>2 DEF IsAccount
      <4>3. CASE f.name = "key"
        BY <1>1, <3>3, <4>3 DEF IsAccount
      <4> QED
        BY <3>1, <4>1, <4>2, <4>3 DEF CredentialNames
    <3>5. \A n \in CredentialNames : c[n] = IF n = f.name THEN Append(a[n], f.value) ELSE a[n]
      BY <1>1, <3>1 DEF Adds, IsAccount, CredentialNames
    <3>6. Goal(c)
      BY <1>1, <1>6, <3>4, <3>5 DEF Adds
    <3> HIDE DEF b, Goal
    <3>7. Goal(b)
      BY <3>2, <3>6
    <3> QED
      BY <3>7 DEF b, Goal
  <2>7. CASE /\ f.name \notin {"malformed", "content_length", "host", "te", "expect",
                               "format", "database"}
             /\ ~Credential(auth, f.name)
    <3>1. b = a
      BY <2>0, <2>7 DEF Credential, failed
    <3>2. Goal(a)
      BY <1>1, <1>6, <2>7 DEF Adds, IsAccount, CredentialNames
    <3> HIDE DEF b, Goal
    <3>3. Goal(b)
      BY <3>1, <3>2
    <3> QED
      BY <3>3 DEF b, Goal
  <2> QED
    BY <2>1, <2>2, <2>3, <2>4, <2>5, <2>6, <2>7
<1> QED
  BY <1>4, <1>5, <1>6

\* The values of one credential among the first n header fields: without a
\* value there is no such field, and one value is that of the only such field.
Collected(values, r, n, name) ==
  /\ values \in Seq(STRING)
  /\ Len(values) = 0 => \A k \in 1 .. n : r.fields[k].name # name
  /\ Len(values) = 1 =>
       \E k \in 1 .. n : /\ r.fields[k].name = name /\ r.fields[k].value = values[1]
                         /\ \A j \in 1 .. n : r.fields[j].name = name => j = k

\* One more header field adds to the values of the credential it names.
LEMMA CollectedStep ==
  ASSUME NEW r \in HttpRequests, NEW n \in 1 .. Len(r.fields), NEW name, NEW values,
         Collected(values, r, n - 1, name)
  PROVE  Collected(IF r.fields[n].name = name THEN Append(values, r.fields[n].value) ELSE values,
                   r, n, name)
<1>0. Len(r.fields) \in Nat /\ r.fields[n] \in Named
  BY DEF HttpRequests
<1>1. r.fields[n].value \in STRING
  BY <1>0 DEF Named
<1>2. n \in Nat /\ n \in 1 .. n /\ \A k \in 1 .. n : k \in 1 .. n - 1 \/ k = n
  BY <1>0
<1>3. \A k \in 1 .. n - 1 : k \in 1 .. n
  BY <1>0
<1>4. CASE r.fields[n].name # name
  BY <1>2, <1>3, <1>4 DEF Collected
<1>5. CASE r.fields[n].name = name
  <2> DEFINE v == r.fields[n].value
             longer == Append(values, v)
  <2>1. /\ values \in Seq(STRING) /\ longer \in Seq(STRING) /\ Len(values) \in Nat
        /\ Len(longer) = Len(values) + 1
        /\ Len(values) = 0 => longer[1] = v
    BY <1>1 DEF Collected
  <2>2. Len(longer) # 0 /\ (Len(longer) = 1 => Len(values) = 0)
    BY <2>1
  <2>3. ASSUME Len(longer) = 1
        PROVE  /\ r.fields[n].name = name /\ r.fields[n].value = longer[1]
               /\ \A j \in 1 .. n : r.fields[j].name = name => j = n
    BY <1>2, <1>5, <2>1, <2>2, <2>3 DEF Collected
  <2> HIDE DEF longer
  <2>4. Collected(longer, r, n, name)
    BY <1>2, <2>1, <2>2, <2>3 DEF Collected
  <2> QED
    BY <1>5, <2>4 DEF longer
<1> QED
  BY <1>4, <1>5

\* After each header field, the account holds the values of every credential
\* the handler asks for.
Accounted(a, auth, r, n) ==
  /\ IsAccount(a)
  /\ a.status = 200 =>
       \A name \in CredentialNames : Credential(auth, name) => Collected(a[name], r, n, name)

\* The account of a whole header block: what parse_headers has when it comes
\* to the credentials.
LEMMA FieldsAreAccounted ==
  ASSUME NEW auth, NEW r \in HttpRequests
  PROVE  Accounted(ParseFields(auth, r), auth, r, Len(r.fields))
<1> DEFINE L == Len(r.fields)
           N == {n \in 0 .. L : Accounted(FieldsRead(auth, r)[n], auth, r, n)}
<1>0. L \in Nat /\ \A k \in 1 .. L : r.fields[k] \in Named
  BY DEF HttpRequests
<1>1. 0 \in N
  <2>1. Accounted(NoFields, auth, r, 0)
    BY DEF Accounted, IsAccount, NoFields, Collected, CredentialNames
  <2> QED
    BY <1>0, <2>1, FieldsReadStep
<1>2. ASSUME NEW n \in 1 .. L, n - 1 \in N
      PROVE  n \in N
  <2> DEFINE a == FieldsRead(auth, r)[n - 1]
             b == ParseField(auth, a, r.fields[n])
  <2>1. Accounted(a, auth, r, n - 1)
    BY <1>2
  <2>2. FieldsRead(auth, r)[n] = b
    BY FieldsReadStep
  <2>3. Adds(auth, a, r.fields[n], b)
    <3>1. IsAccount(a) /\ r.fields[n] \in Named
      BY <1>0, <2>1 DEF Accounted
    <3> HIDE DEF a
    <3> QED
      BY <3>1, ParseFieldEffect, Zenon
  <2> HIDE DEF a, b
  <2>4. ASSUME b.status = 200, NEW name \in CredentialNames, Credential(auth, name)
        PROVE  Collected(b[name], r, n, name)
    <3>1. Collected(a[name], r, n - 1, name)
      BY <2>1, <2>3, <2>4 DEF Accounted, Adds
    <3>2. Collected(IF r.fields[n].name = name THEN Append(a[name], r.fields[n].value)
                    ELSE a[name], r, n, name)
      BY <3>1, CollectedStep
    <3>3. b[name] = IF r.fields[n].name = name THEN Append(a[name], r.fields[n].value)
                    ELSE a[name]
      BY <2>3, <2>4 DEF Adds
    <3> QED
      BY <3>2, <3>3
  <2>5. Accounted(b, auth, r, n)
    BY <2>3, <2>4 DEF Accounted, Adds
  <2>6. n \in 0 .. L
    BY <1>0
  <2> QED
    BY <2>2, <2>5, <2>6
<1>3. 0 .. L \subseteq N
  <2> HIDE DEF N, L
  <2> QED
    BY <1>0, <1>1, <1>2, InductionUpTo
<1>4. L \in N
  BY <1>0, <1>3
<1> QED
  BY <1>4, ParseFieldsIsLast

(***************************************************************************)
(* The credentials.                                                        *)
(***************************************************************************)
\* The values of one credential among all the header fields.
CollectedAll(values, r, name) == Collected(values, r, Len(r.fields), name)

\* A credential that says something.
Says(v) == v # ""

\* A credential that is taken as sent is the value of the only such field.
LEMMA SentIsPresented ==
  ASSUME NEW r \in HttpRequests, NEW name, NEW values,
         CollectedAll(values, r, name), Says(Sent(values))
  PROVE  Presents(r, name, Sent(values))
<1>1. Len(values) = 1 /\ Sent(values) = values[1]
  BY DEF Sent, Says
<1>2. DOMAIN r.fields = 1 .. Len(r.fields)
  <2>1. r.fields \in Seq(Named)
    BY DEF HttpRequests
  <2> QED
    BY <2>1, LenProperties
<1> QED
  BY <1>1, <1>2 DEF CollectedAll, Collected, Presents

\* The principal p is what the credentials in the account a match.
Matches(h, a, p) ==
  CASE h.auth = "bearer" -> Sent(a.authorization) = p.key
    [] h.auth = "key"    -> Sent(a.key) = p.key
    [] OTHER             -> Sent(a.user) = p.user /\ Sent(a.key) = p.key

\* A principal whose credentials match has its role granted.
LEMMA MatchIsGranted ==
  ASSUME NEW h \in Handlers, ValidConfiguration(h), Configured(h), NEW r \in HttpRequests,
         NEW a, Accounted(a, h.auth, r, Len(r.fields)), a.status = 200,
         NEW p \in h.principals, Matches(h, a, p)
  PROVE  p.role \in Granted(h, r)
<1>1. /\ p.key # "" /\ (h.auth \in {"principal", "set"} => p.user # "")
  BY DEF ValidConfiguration
<1>2. h.auth \in {"bearer", "key", "principal", "set"}
  BY DEF Handlers, Configured
<1>3. /\ h.auth = "bearer" => CollectedAll(a.authorization, r, "authorization")
      /\ h.auth \in {"key", "principal", "set"} => CollectedAll(a.key, r, "key")
      /\ h.auth \in {"principal", "set"} => CollectedAll(a.user, r, "user")
  BY DEF CollectedAll, Accounted, CredentialNames, Credential
<1>4. /\ h.auth = "bearer" => Sent(a.authorization) = p.key
      /\ h.auth \in {"key", "principal", "set"} => Sent(a.key) = p.key
      /\ h.auth \in {"principal", "set"} => Sent(a.user) = p.user
  BY <1>2 DEF Matches
<1>5. h.auth = "bearer" => Presents(r, "authorization", p.key)
  <2>1. SUFFICES ASSUME h.auth = "bearer"
                 PROVE  Presents(r, "authorization", p.key)
    OBVIOUS
  <2>2. /\ CollectedAll(a.authorization, r, "authorization")
        /\ Sent(a.authorization) = p.key /\ Says(Sent(a.authorization))
    BY <1>1, <1>3, <1>4, <2>1 DEF Says
  <2>3. Presents(r, "authorization", Sent(a.authorization))
    BY <2>2, SentIsPresented
  <2> QED
    BY <2>2, <2>3
<1>6. h.auth \in {"key", "principal", "set"} => Presents(r, "key", p.key)
  <2>1. SUFFICES ASSUME h.auth \in {"key", "principal", "set"}
                 PROVE  Presents(r, "key", p.key)
    OBVIOUS
  <2>2. /\ CollectedAll(a.key, r, "key")
        /\ Sent(a.key) = p.key /\ Says(Sent(a.key))
    BY <1>1, <1>3, <1>4, <2>1 DEF Says
  <2>3. Presents(r, "key", Sent(a.key))
    BY <2>2, SentIsPresented
  <2> QED
    BY <2>2, <2>3
<1>7. h.auth \in {"principal", "set"} => Presents(r, "user", p.user)
  <2>1. SUFFICES ASSUME h.auth \in {"principal", "set"}
                 PROVE  Presents(r, "user", p.user)
    OBVIOUS
  <2>2. /\ CollectedAll(a.user, r, "user")
        /\ Sent(a.user) = p.user /\ Says(Sent(a.user))
    BY <1>1, <1>3, <1>4, <2>1 DEF Says
  <2>3. Presents(r, "user", Sent(a.user))
    BY <2>2, SentIsPresented
  <2> QED
    BY <2>2, <2>3
<1> QED
  BY <1>5, <1>6, <1>7 DEF Granted

\* What a handler that authenticates lets through presents a configured
\* principal's credentials, and write access is that principal's.
LEMMA AuthenticatedIsGranted ==
  ASSUME NEW h \in Handlers, ValidConfiguration(h), Configured(h), NEW r \in HttpRequests,
         NEW a, Accounted(a, h.auth, r, Len(r.fields)), a.status = 200,
         Authenticate(h, a) # "denied"
  PROVE  /\ Granted(h, r) # {}
         /\ Authenticate(h, a) = "rw" => "rw" \in Granted(h, r)
<1> DEFINE matched == {p \in h.principals : Matches(h, a, p)}
<1>1. Authenticate(h, a) =
        IF matched = {} THEN "denied" ELSE IF h.auth # "set" THEN h.access
        ELSE IF \E p \in matched : p.role = "rw" THEN "rw" ELSE "ro"
  BY DEF Authenticate, Matches
<1>2. \A p \in matched : p.role \in Granted(h, r)
  BY MatchIsGranted
<1> HIDE DEF matched
<1>3. matched # {}
  BY <1>1
<1>4. h.auth # "set" => \A p \in matched : p.role = h.access
  BY DEF Handlers, matched
<1> QED
  BY <1>1, <1>2, <1>3, <1>4

(***************************************************************************)
(* The whole header block.                                                 *)
(***************************************************************************)
Kinds == {"query", "params", "ping", "ready", "metrics", "insert", "table"}
Statuses == {200, 400, 401, 404, 405, 411, 413, 417, 431, 505}

\* What a request line is good for: the insert targets need a handler that
\* authenticates, and only some methods go with a target.
LEMMA RequestLine ==
  ASSUME NEW h, NEW r
  PROVE  /\ ParseRequestLine(h, r).status \in Statuses
         /\ IsGood(ParseRequestLine(h, r)) =>
              /\ ParseRequestLine(h, r).value = r.target /\ r.target \in Kinds
              /\ r.target \in {"insert", "table"} => Configured(h)
              /\ r.target \in {"insert", "table", "query"} => r.method = "POST"
<1> DEFINE routes == [query |-> {"POST"}, params |-> {"GET", "POST"}, ping |-> {"GET"},
                      ready |-> {"GET"}, metrics |-> {"GET"}, insert |-> {"POST"},
                      table |-> {"POST"}]
           inserts == Configured(h) /\ r.target \in {"insert", "table"}
           line == ParseRequestLine(h, r)
<1>1. \/ \E s \in {400, 404, 405, 505} : line = Fail(s)
      \/ /\ line = Good(r.target)
         /\ inserts \/ r.target \in {"query", "params", "ping", "ready", "metrics"}
         /\ r.method \in routes[r.target]
  BY DEF ParseRequestLine
<1>2. r.target \in {"insert", "table", "query"} => routes[r.target] = {"POST"}
  OBVIOUS
<1> HIDE DEF line, routes
<1>3. CASE \E s \in {400, 404, 405, 505} : line = Fail(s)
  BY <1>3 DEF Fail, IsGood, Statuses, line
<1>4. CASE /\ line = Good(r.target)
           /\ inserts \/ r.target \in {"query", "params", "ping", "ready", "metrics"}
           /\ r.method \in routes[r.target]
  BY <1>2, <1>4 DEF Good, IsGood, Statuses, Kinds, line
<1> QED
  BY <1>1, <1>3, <1>4

\* What is known of a request whose header block is good: it is for a route,
\* its credentials were found good, and inserts are for those who may write.
Admitted(h, r, v) ==
  /\ v.kind = r.target /\ v.kind \in Kinds
  /\ Configured(h) => Granted(h, r) # {}
  /\ v.access = "rw" => Configured(h) /\ "rw" \in Granted(h, r)
  /\ v.kind \in {"insert", "table"} => v.access = "rw"
  /\ v.kind \in {"insert", "table", "query"} => r.method = "POST"

\* A good header block is admitted, and the others have an error status.
LEMMA HeadersAreAdmitted ==
  ASSUME NEW h \in Handlers, ValidConfiguration(h), NEW r \in HttpRequests
  PROVE  /\ ParseHeaders(h, r).status \in Statuses
         /\ IsGood(ParseHeaders(h, r)) => Admitted(h, r, ParseHeaders(h, r).value)
<1> DEFINE line == ParseRequestLine(h, r)
           a == ParseFields(h.auth, r)
           access == Authenticate(h, a)
           format == FormatField(line.value, a.format)
           parsed == ParseHeaders(h, r)
           value == [kind |-> line.value, content_length |-> a.content_length,
                     format |-> format.value, access |-> access]
<1>1. /\ line.status \in Statuses
      /\ IsGood(line) => /\ line.value = r.target /\ r.target \in Kinds
                         /\ r.target \in {"insert", "table"} => Configured(h)
                         /\ r.target \in {"insert", "table", "query"} => r.method = "POST"
  BY RequestLine
<1>2. Accounted(a, h.auth, r, Len(r.fields))
  BY FieldsAreAccounted
<1>3. a.status \in {200, 400, 413, 431}
  BY <1>2 DEF Accounted, IsAccount
<1>4. ASSUME a.status = 200, access # "denied"
      PROVE  /\ Configured(h) => Granted(h, r) # {}
             /\ access = "rw" => Configured(h) /\ "rw" \in Granted(h, r)
  <2>1. CASE Configured(h)
    BY <1>2, <1>4, <2>1, AuthenticatedIsGranted
  <2>2. CASE ~Configured(h)
    BY <2>2 DEF Authenticate, Handlers, AllowsInsert
  <2> QED
    BY <2>1, <2>2
<1>5. format.status \in {200, 400}
  BY DEF FormatField, Good, Fail
<1>6. \/ ~IsGood(line) /\ parsed = line
      \/ \E s \in {a.status, 400, 401, 404, 417} : s # 200 /\ parsed = Fail(s)
      \/ ~IsGood(format) /\ parsed = format
      \/ /\ IsGood(line) /\ a.status = 200 /\ access # "denied"
         /\ line.value \in {"insert", "table"} => AllowsInsert(access)
         /\ parsed = Good(value)
  <2> DEFINE elsewhere == /\ UsesDatabaseName(line.value)
                          /\ a.database \notin {<<>>, <<"default">>}
  <2> HIDE DEF line, a, access, format, value
  <2>1. parsed =
          IF ~IsGood(line) THEN line
          ELSE IF a.status # 200 THEN Fail(a.status)
          ELSE IF access = "denied" THEN Fail(401)
          ELSE IF line.value \in {"insert", "table"} /\ ~AllowsInsert(access) THEN Fail(404)
          ELSE IF elsewhere THEN Fail(400)
          ELSE IF a.te = "yes" THEN Fail(400)
          ELSE IF a.expect = "yes" THEN Fail(417)
          ELSE IF a.host = "no" THEN Fail(400)
          ELSE IF ~IsGood(format) THEN format
          ELSE Good(value)
    BY DEF ParseHeaders, line, a, access, format, value
  <2> DEFINE rest == IF elsewhere THEN Fail(400)
                     ELSE IF a.te = "yes" THEN Fail(400)
                     ELSE IF a.expect = "yes" THEN Fail(417)
                     ELSE IF a.host = "no" THEN Fail(400)
                     ELSE IF ~IsGood(format) THEN format
                     ELSE Good(value)
  <2>2. \/ \E s \in {400, 417} : rest = Fail(s)
        \/ ~IsGood(format) /\ rest = format
        \/ rest = Good(value)
    OBVIOUS
  <2> HIDE DEF parsed, rest
  <2>3. CASE ~IsGood(line)
    BY <2>1, <2>3
  <2>4. CASE IsGood(line) /\ a.status # 200
    BY ZenonT(60), <2>1, <2>4
  <2>5. CASE IsGood(line) /\ a.status = 200 /\ access = "denied"
    BY <2>1, <2>5
  <2>6. CASE /\ IsGood(line) /\ a.status = 200 /\ access # "denied"
             /\ line.value \in {"insert", "table"} /\ ~AllowsInsert(access)
    BY <2>1, <2>6
  <2>7. CASE /\ IsGood(line) /\ a.status = 200 /\ access # "denied"
             /\ line.value \in {"insert", "table"} => AllowsInsert(access)
    <3>1. parsed = rest
      BY <2>1, <2>7 DEF rest
    <3> QED
      BY <2>2, <2>7, <3>1
  <2> QED
    BY <2>3, <2>4, <2>5, <2>6, <2>7
<1> HIDE DEF line, a, access, format, parsed
<1>7. CASE ~IsGood(line) /\ parsed = line
  BY <1>1, <1>7 DEF parsed
<1>8. CASE \E s \in {a.status, 400, 401, 404, 417} : s # 200 /\ parsed = Fail(s)
  BY <1>3, <1>8 DEF Fail, IsGood, Statuses, parsed
<1>9. CASE ~IsGood(format) /\ parsed = format
  BY <1>5, <1>9 DEF IsGood, Statuses, parsed
<1>10. CASE /\ IsGood(line) /\ a.status = 200 /\ access # "denied"
            /\ line.value \in {"insert", "table"} => AllowsInsert(access)
            /\ parsed = Good(value)
  <2>1. parsed.value = value /\ parsed.status = 200
    BY <1>10 DEF Good
  <2>2. value.kind = line.value /\ value.access = access
    OBVIOUS
  <2> HIDE DEF value
  <2>3. Admitted(h, r, value)
    BY <1>1, <1>4, <1>10, <2>2 DEF Admitted, AllowsInsert
  <2> QED
    BY <2>1, <2>3 DEF parsed, Statuses
<1> QED
  BY <1>6, <1>7, <1>8, <1>9, <1>10

\* Without good credentials a request is refused alike whatever the access of
\* the handler.
LEMMA RefusedAlike ==
  ASSUME NEW h \in Handlers, ValidConfiguration(h), Configured(h), NEW r \in HttpRequests,
         Granted(h, r) = {}, NEW access
  PROVE  ParseHeaders([h EXCEPT !.access = access], r) = ParseHeaders(h, r)
<1> DEFINE g == [h EXCEPT !.access = access]
           a == ParseFields(h.auth, r)
<1>1. g.auth = h.auth /\ g.principals = h.principals
  BY DEF Handlers
<1>2. Accounted(a, h.auth, r, Len(r.fields))
  BY FieldsAreAccounted
<1> HIDE DEF a, g
<1>3. Configured(g) = Configured(h)
  BY <1>1 DEF Configured
<1>4. ParseRequestLine(g, r) = ParseRequestLine(h, r)
  BY <1>3 DEF ParseRequestLine
<1>5. a.status = 200 => Authenticate(h, a) = "denied"
  BY <1>2, AuthenticatedIsGranted
<1>6. Authenticate(h, a) = "denied" => Authenticate(g, a) = "denied"
  <2> DEFINE matched(k) == {p \in k.principals : Matches(k, a, p)}
  <2>1. matched(g) = matched(h)
    BY <1>1 DEF Matches
  <2>2. Authenticate(h, a) = "denied" => matched(h) = {}
    BY DEF Authenticate, Matches, Handlers
  <2> QED
    BY <1>3, <2>1, <2>2 DEF Authenticate, Matches
<1> QED
  BY <1>1, <1>4, <1>5, <1>6 DEF ParseHeaders, a, g

(***************************************************************************)
(* The URL parameters.                                                     *)
(***************************************************************************)
\* f is what is known after each number of the URL parameters, up to n.
ParamsUpTo(f, r, n) ==
  f = [k \in 0 .. n |-> IF k = 0 THEN NoParams ELSE ParseParam(r, f[k - 1], r.params[k])]

ParamsRead(r) == CHOOSE f : ParamsUpTo(f, r, Len(r.params))

\* The loop over the URL parameters is well defined for every request.
LEMMA ParamsUpToExists ==
  ASSUME NEW r \in HttpRequests
  PROVE  \E f : ParamsUpTo(f, r, Len(r.params))
<1> DEFINE L == Len(r.params)
           N == {n \in 0 .. L : \E f : ParamsUpTo(f, r, n)}
<1>0. L \in Nat
  BY DEF HttpRequests
<1>1. 0 \in N
  <2>1. \A k \in 0 .. 0 : k = 0
    OBVIOUS
  <2>2. ParamsUpTo([k \in 0 .. 0 |-> NoParams], r, 0)
    BY <2>1 DEF ParamsUpTo
  <2>3. 0 \in 0 .. L
    BY <1>0
  <2> QED
    BY <2>2, <2>3
<1>2. ASSUME NEW n \in 1 .. L, n - 1 \in N
      PROVE  n \in N
  <2>1. PICK f : ParamsUpTo(f, r, n - 1)
    BY <1>2
  <2> DEFINE g == [k \in 0 .. n |-> IF k = n THEN ParseParam(r, f[n - 1], r.params[n])
                                             ELSE f[k]]
  <2>2. ASSUME NEW k \in 0 .. n
        PROVE  g[k] = IF k = 0 THEN NoParams ELSE ParseParam(r, g[k - 1], r.params[k])
    <3>1. CASE k = n
      <4>1. n # 0 /\ n - 1 \in 0 .. n /\ n - 1 # n
        OBVIOUS
      <4>2. g[n - 1] = f[n - 1] /\ g[n] = ParseParam(r, f[n - 1], r.params[n])
        BY <4>1
      <4> QED
        BY <3>1, <4>1, <4>2
    <3>2. CASE k # n
      <4>1. k \in 0 .. n - 1 /\ (k # 0 => k - 1 \in 0 .. n /\ k - 1 # n)
        BY <3>2
      <4>2. f[k] = IF k = 0 THEN NoParams ELSE ParseParam(r, f[k - 1], r.params[k])
        BY <4>1, <2>1 DEF ParamsUpTo
      <4>3. g[k] = f[k] /\ (k # 0 => g[k - 1] = f[k - 1])
        BY <3>2, <4>1
      <4> QED
        BY <4>2, <4>3
    <3> QED
      BY <3>1, <3>2
  <2>3. g = [k \in 0 .. n |-> g[k]]
    OBVIOUS
  <2> HIDE DEF g
  <2>4. ParamsUpTo(g, r, n)
    BY <2>2, <2>3 DEF ParamsUpTo
  <2> QED
    BY <2>4
<1>3. 0 .. L \subseteq N
  <2> HIDE DEF N, L
  <2> QED
    BY <1>0, <1>1, <1>2, InductionUpTo
<1>4. L \in N
  BY <1>0, <1>3
<1> QED
  BY <1>4

\* One URL parameter after another.
LEMMA ParamsReadStep ==
  ASSUME NEW r \in HttpRequests
  PROVE  /\ ParamsRead(r)[0] = NoParams
         /\ \A k \in 1 .. Len(r.params) :
              ParamsRead(r)[k] = ParseParam(r, ParamsRead(r)[k - 1], r.params[k])
<1>1. ParamsUpTo(ParamsRead(r), r, Len(r.params))
  BY ParamsUpToExists DEF ParamsRead
<1>2. Len(r.params) \in Nat
  BY DEF HttpRequests
<1>3. 0 \in 0 .. Len(r.params) /\ \A k \in 1 .. Len(r.params) : k \in 0 .. Len(r.params) /\ k # 0
  BY <1>2
<1> QED
  BY <1>1, <1>3 DEF ParamsUpTo

\* An account of URL parameters.
IsHearing(a) ==
  /\ DOMAIN a = {"status", "seen", "format", "readonly", "workload"}
  /\ a.status \in {200, 400, 413}

\* The account b is acc with what one more good URL parameter says.
Hears(acc, p, b) ==
  /\ IsHearing(b)
  /\ b.status = 200 =>
       /\ acc.status = 200 /\ p.name \notin acc.seen /\ b.seen = acc.seen \cup {p.name}
       /\ p.name # "readonly" => b.readonly = acc.readonly
       /\ p.name = "readonly" /\ p.number = 1 => b.readonly = "yes"

\* No parameter is heard twice, and readonly=1 is heard.
LEMMA ParseParamEffect ==
  ASSUME NEW r, NEW acc, IsHearing(acc), NEW p \in Named
  PROVE  Hears(acc, p, ParseParam(r, acc, p))
<1> DEFINE a == [acc EXCEPT !.seen = @ \cup {p.name}]
           b == ParseParam(r, acc, p)
<1>1. \A s \in {400, 413} : Hears(acc, p, [acc EXCEPT !.status = s])
  BY DEF Hears, IsHearing
<1>2. /\ IsHearing(a) /\ a.status = acc.status /\ a.seen = acc.seen \cup {p.name}
      /\ a.readonly = acc.readonly
  BY DEF IsHearing
<1> HIDE DEF a
<1>3. CASE acc.status # 200
  <2>1. b = acc
    BY <1>3 DEF ParseParam
  <2> HIDE DEF b
  <2>2. Hears(acc, p, b)
    BY <1>3, <2>1 DEF Hears
  <2> QED
    BY <2>2 DEF b
<1>4. CASE acc.status = 200 /\ p.name \in acc.seen \cup {"empty"}
  <2>1. b = [acc EXCEPT !.status = 400]
    BY <1>4 DEF ParseParam
  <2> HIDE DEF b
  <2>2. Hears(acc, p, b)
    BY <1>1, <2>1
  <2> QED
    BY <2>2 DEF b
<1>5. CASE acc.status = 200 /\ p.name \notin acc.seen \cup {"empty"}
  <2>1. \/ \E s \in {400, 413} : b = [acc EXCEPT !.status = s]
        \/ p.name # "readonly" /\ b = a
        \/ p.name # "readonly" /\ \E v : b = [a EXCEPT !.format = v]
        \/ p.name # "readonly" /\ \E v : b = [a EXCEPT !.workload = v]
        \/ p.name = "readonly" /\ p.number = 1 /\ b = [a EXCEPT !.readonly = "yes"]
        \/ p.name = "readonly" /\ p.number = 0 /\ b = [a EXCEPT !.readonly = "no"]
    <3> DEFINE failed(status) == [acc EXCEPT !.status = status]
               queried == IF r.sql.bytes > MaxSqlBytes THEN failed(413) ELSE a
               named == IF p.value # "default" THEN failed(400) ELSE a
               formatted == IF p.value \in OutputFormats THEN [a EXCEPT !.format = p.value]
                            ELSE failed(400)
               bounded == IF p.number \in 0 .. UsizeMax
                          THEN [a EXCEPT !.workload[p.name] = p.number] ELSE failed(400)
               limited == IF p.number \in {0, 1}
                          THEN [a EXCEPT !.readonly = IF p.number = 1 THEN "yes" ELSE "no"]
                          ELSE failed(400)
    <3>0. b = CASE p.value = "malformed" -> failed(400)
                [] p.value # "malformed" /\ p.name = "query" -> queried
                [] p.value # "malformed" /\ p.name = "database" -> named
                [] p.value # "malformed" /\ p.name = "default_format" -> formatted
                [] p.value # "malformed" /\ p.name \in WorkloadNames -> bounded
                [] p.value # "malformed" /\ p.name = "readonly" -> limited
                [] OTHER -> failed(400)
      BY <1>5 DEF ParseParam, a
    <3> HIDE DEF b, queried, named, formatted, bounded, limited
    <3>1. CASE p.value = "malformed"
      BY <3>0, <3>1
    <3>2. CASE p.value # "malformed" /\ p.name = "query"
      <4>1. b = queried
        BY <3>0, <3>2 DEF WorkloadNames
      <4> QED
        BY <3>2, <4>1 DEF queried
    <3>3. CASE p.value # "malformed" /\ p.name = "database"
      <4>1. b = named
        BY <3>0, <3>3 DEF WorkloadNames
      <4> QED
        BY <3>3, <4>1 DEF named
    <3>4. CASE p.value # "malformed" /\ p.name = "default_format"
      <4>1. b = formatted
        BY <3>0, <3>4 DEF WorkloadNames
      <4> QED
        <5>1. CASE p.value \in OutputFormats
          <6>1. b = [a EXCEPT !.format = p.value]
            BY <4>1, <5>1 DEF formatted
          <6>2. p.name # "readonly"
            BY <3>4
          <6> QED
            BY ZenonT(60), <6>1, <6>2
        <5>2. CASE p.value \notin OutputFormats
          <6>1. b = failed(400)
            BY <4>1, <5>2 DEF formatted
          <6> QED
            BY <6>1
        <5> QED
          BY <5>1, <5>2
    <3>5. CASE p.value # "malformed" /\ p.name \in WorkloadNames
      <4>1. b = bounded
        BY <3>0, <3>5 DEF WorkloadNames
      <4>2. [a EXCEPT !.workload[p.name] = p.number] =
              [a EXCEPT !.workload = [a.workload EXCEPT ![p.name] = p.number]]
        OBVIOUS
      <4> QED
        BY ZenonT(60), <3>5, <4>1, <4>2 DEF bounded, WorkloadNames
    <3>6. CASE p.value # "malformed" /\ p.name = "readonly"
      <4>1. b = limited
        BY <3>0, <3>6 DEF WorkloadNames
      <4> QED
        BY <3>6, <4>1 DEF limited
    <3>7. CASE /\ p.value # "malformed" /\ p.name \notin WorkloadNames
               /\ p.name \notin {"query", "database", "default_format", "readonly"}
      BY <3>0, <3>7
    <3> QED
      BY <3>1, <3>2, <3>3, <3>4, <3>5, <3>6, <3>7
  <2> HIDE DEF b
  <2>2. Hears(acc, p, b)
    <3>1. CASE \E s \in {400, 413} : b = [acc EXCEPT !.status = s]
      BY <1>1, <3>1
    <3>2. CASE p.name # "readonly" /\ b = a
      BY <1>2, <1>5, <3>2 DEF Hears
    <3>3. CASE p.name # "readonly" /\ \E v : b = [a EXCEPT !.format = v]
      BY <1>2, <1>5, <3>3 DEF Hears, IsHearing
    <3>4. CASE p.name # "readonly" /\ \E v : b = [a EXCEPT !.workload = v]
      BY <1>2, <1>5, <3>4 DEF Hears, IsHearing
    <3>5. CASE p.name = "readonly" /\ p.number = 1 /\ b = [a EXCEPT !.readonly = "yes"]
      BY <1>2, <1>5, <3>5 DEF Hears, IsHearing
    <3>6. CASE p.name = "readonly" /\ p.number = 0 /\ b = [a EXCEPT !.readonly = "no"]
      BY <1>2, <1>5, <3>6 DEF Hears, IsHearing
    <3> QED
      BY <2>1, <3>1, <3>2, <3>3, <3>4, <3>5, <3>6
  <2> QED
    BY <2>2 DEF b
<1> QED
  BY <1>3, <1>4, <1>5

\* After each parameter, each was heard, and none of them was readonly=1
\* unless the account says so.
Heard(a, r, n) ==
  /\ IsHearing(a)
  /\ a.status = 200 =>
       /\ \A k \in 1 .. n : r.params[k].name \in a.seen
       /\ a.readonly # "yes" =>
            \A k \in 1 .. n : ~(r.params[k].name = "readonly" /\ r.params[k].number = 1)

\* What decode_query_parameters has heard after the last parameter.
LEMMA ParamsAreHeard ==
  ASSUME NEW r \in HttpRequests
  PROVE  Heard(ParamsRead(r)[Len(r.params)], r, Len(r.params))
<1> DEFINE L == Len(r.params)
           N == {n \in 0 .. L : Heard(ParamsRead(r)[n], r, n)}
<1>0. L \in Nat /\ \A k \in 1 .. L : r.params[k] \in Named
  BY DEF HttpRequests
<1>1. 0 \in N
  <2>1. Heard(NoParams, r, 0)
    BY DEF Heard, IsHearing, NoParams
  <2> QED
    BY <1>0, <2>1, ParamsReadStep
<1>2. ASSUME NEW n \in 1 .. L, n - 1 \in N
      PROVE  n \in N
  <2> DEFINE a == ParamsRead(r)[n - 1]
             b == ParseParam(r, a, r.params[n])
  <2>1. Heard(a, r, n - 1)
    BY <1>2
  <2>2. ParamsRead(r)[n] = b
    BY ParamsReadStep
  <2>3. Hears(a, r.params[n], b)
    <3>1. IsHearing(a) /\ r.params[n] \in Named
      BY <1>0, <2>1 DEF Heard
    <3> HIDE DEF a
    <3> QED
      BY <3>1, ParseParamEffect
  <2> HIDE DEF a, b
  <2>4. \A k \in 1 .. n : k = n \/ k \in 1 .. n - 1
    BY <1>0
  <2>5. Heard(b, r, n)
    BY <2>1, <2>3, <2>4 DEF Heard, Hears
  <2>6. n \in 0 .. L
    BY <1>0
  <2> QED
    BY <2>2, <2>5, <2>6
<1>3. 0 .. L \subseteq N
  <2> HIDE DEF N, L
  <2> QED
    BY <1>0, <1>1, <1>2, InductionUpTo
<1>4. L \in N
  BY <1>0, <1>3
<1> QED
  BY <1>4

\* Of parameters that are good, none is readonly=1 unless the request is read
\* only, and the others are refused with an error.
LEMMA DecodedParams ==
  ASSUME NEW r \in HttpRequests
  PROVE  /\ DecodeQueryParameters(r).status \in Statuses
         /\ IsGood(DecodeQueryParameters(r)) /\ DecodeQueryParameters(r).value.readonly # "yes" =>
              \A k \in DOMAIN r.params :
                ~(r.params[k].name = "readonly" /\ r.params[k].number = 1)
<1> DEFINE a == ParamsRead(r)[Len(r.params)]
           decoded == DecodeQueryParameters(r)
<1>1. \/ \E s \in {a.status, 400} : s # 200 /\ decoded = Fail(s)
      \/ a.status = 200 /\ decoded = Good(a)
  BY DEF DecodeQueryParameters, ParamsRead, ParamsUpTo
<1>2. Heard(a, r, Len(r.params))
  BY ParamsAreHeard
<1>3. DOMAIN r.params = 1 .. Len(r.params)
  <2>1. r.params \in Seq(Named)
    BY DEF HttpRequests
  <2> QED
    BY <2>1, LenProperties
<1> HIDE DEF a, decoded
<1>4. CASE \E s \in {a.status, 400} : s # 200 /\ decoded = Fail(s)
  BY <1>2, <1>4 DEF Heard, IsHearing, Fail, IsGood, Statuses, decoded
<1>5. CASE a.status = 200 /\ decoded = Good(a)
  BY <1>2, <1>3, <1>5 DEF Heard, Good, IsGood, Statuses, decoded
<1> QED
  BY <1>1, <1>4, <1>5

(***************************************************************************)
(* What a request is taken for.                                            *)
(***************************************************************************)
\* The request r may change the database that the handler h serves.
Writes(h, r) ==
  /\ Configured(h) /\ "rw" \in Granted(h, r) /\ r.method = "POST"
  /\ ~\E k \in DOMAIN r.params : r.params[k].name = "readonly" /\ r.params[k].number = 1

\* What becomes of a request once its body is there: an insert only if it may
\* write.
IsOutcome(h, r, after) ==
  /\ after.status \in Statuses
  /\ IsGood(after) /\ IsInsert(after.value) => Writes(h, r)

\* Standard SQL text becomes an insert only where inserts are enabled.
LEMMA Classified ==
  ASSUME NEW h, NEW r, NEW sql, NEW format, NEW workload,
         NEW enabled, enabled => Writes(h, r)
  PROVE  IsOutcome(h, r, ClassifyStandardQuery(sql, format, workload, enabled))
<1> DEFINE cut == [sql EXCEPT !.format = None]
           c == ClassifyStandardQuery(sql, format, workload, enabled)
<1>1. \/ c = Fail(400)
      \/ enabled /\ c = Good(Insert(cut))
      \/ c = Good(Query(cut, workload))
  BY DEF ClassifyStandardQuery
<1>2. Insert(cut).kind = "insert" /\ Query(cut, workload).kind = "query"
  BY DEF Insert, Query
<1> HIDE DEF c, cut
<1>3. CASE c = Fail(400)
  BY <1>3 DEF IsOutcome, Fail, IsGood, Statuses, c
<1>4. CASE enabled /\ c = Good(Insert(cut))
  <2>1. Writes(h, r)
    BY <1>4
  <2>2. IsOutcome(h, r, c)
    BY <1>4, <2>1 DEF IsOutcome, Good, IsGood, Statuses
  <2> QED
    BY <2>2 DEF c
<1>5. CASE c = Good(Query(cut, workload))
  BY <1>2, <1>5 DEF IsOutcome, Good, IsGood, Statuses, IsInsert, c
<1> QED
  BY <1>1, <1>3, <1>4, <1>5

\* A reading of a request: refused with an error, or a plan whose outcome is
\* sound.
IsReading(h, r, reading) ==
  /\ reading.status \in Statuses
  /\ IsGood(reading) => IsOutcome(h, r, reading.value.after)

\* A table insert is only planned for a request that may write.
LEMMA TableInsertIsSound ==
  ASSUME NEW h, NEW r, Writes(h, r), NEW v
  PROVE  IsReading(h, r, ReadTableInsert(v))
<1> DEFINE length == TableInsertBodyLength(v.content_length)
           plan == Plan(length.value, Good(Ingest))
           reading == ReadTableInsert(v)
<1>1. length.status \in {200, 400, 411, 413}
  BY DEF TableInsertBodyLength, BoundedBodyLength, Good, Fail, IsGood
<1>2. IsOutcome(h, r, plan.after)
  BY DEF IsOutcome, Plan, Good, Statuses, IsGood
<1>3. reading = IF IsGood(length) THEN Good(plan) ELSE length
  BY DEF ReadTableInsert
<1> HIDE DEF length, plan, reading
<1>4. CASE IsGood(length)
  BY <1>2, <1>3, <1>4 DEF IsReading, Good, Statuses, IsGood, reading
<1>5. CASE ~IsGood(length)
  BY <1>1, <1>3, <1>5 DEF IsReading, Statuses, IsGood, reading
<1> QED
  BY <1>4, <1>5

\* A body of SQL text keeps what its text was classified as, if it is UTF-8.
LEMMA SqlBodyIsSound ==
  ASSUME NEW h, NEW r, NEW v, NEW after, IsOutcome(h, r, after)
  PROVE  IsReading(h, r, ReadSqlBody(r, v, after))
<1> DEFINE length == BoundedBodyLength(v.content_length, MaxSqlBytes)
           outcome == IF r.sql.utf8 THEN after ELSE Fail(400)
           plan == Plan(length.value, outcome)
           reading == ReadSqlBody(r, v, after)
<1>1. length.status \in {200, 411, 413}
  BY DEF BoundedBodyLength, Good, Fail, IsGood
<1>2. IsOutcome(h, r, outcome)
  BY DEF IsOutcome, Fail, Statuses, IsGood
<1>3. plan.after = outcome
  BY DEF Plan
<1>4. reading = IF IsGood(length) THEN Good(plan) ELSE length
  BY DEF ReadSqlBody
<1> HIDE DEF length, plan, reading, outcome
<1>5. CASE IsGood(length)
  BY <1>2, <1>3, <1>4, <1>5 DEF IsReading, Good, Statuses, IsGood, reading
<1>6. CASE ~IsGood(length)
  BY <1>1, <1>4, <1>6 DEF IsReading, Statuses, IsGood, reading
<1> QED
  BY <1>5, <1>6

\* A request with URL parameters inserts only if it is a POST by somebody who
\* may write and who does not ask for readonly=1.
LEMMA ParameterizedIsSound ==
  ASSUME NEW h, NEW r \in HttpRequests, NEW v, Admitted(h, r, v)
  PROVE  IsReading(h, r, ReadParameterized(r, v))
<1> DEFINE decoded == DecodeQueryParameters(r)
           params == decoded.value
           access == TightenForRequest(v.access, params.readonly)
           format == IF v.format # None THEN v.format ELSE params.format
           enabled == AllowsInsert(access) /\ r.method = "POST"
           after == ClassifyStandardQuery(r.sql, format, params.workload,
                                          AllowsInsert(access) /\ r.method = "POST" /\ format = None)
           reading == ReadParameterized(r, v)
<1>1. /\ decoded.status \in Statuses
      /\ IsGood(decoded) /\ params.readonly # "yes" =>
           \A k \in DOMAIN r.params :
             ~(r.params[k].name = "readonly" /\ r.params[k].number = 1)
  BY DecodedParams
<1>2. IsGood(decoded) /\ enabled => Writes(h, r)
  BY <1>1 DEF TightenForRequest, AllowsInsert, Admitted, Writes
<1>3. IsGood(decoded) => IsOutcome(h, r, after)
  BY <1>2, Classified
<1>4. \/ ~IsGood(decoded) /\ reading = decoded
      \/ reading = Fail(400)
      \/ IsGood(decoded) /\ enabled /\ reading = ReadTableInsert(v)
      \/ IsGood(decoded) /\ reading = Good(Plan(0, after))
  BY DEF ReadParameterized
<1> HIDE DEF decoded, params, access, format, enabled, after, reading
<1>5. CASE ~IsGood(decoded) /\ reading = decoded
  BY <1>1, <1>5 DEF IsReading, reading
<1>6. CASE reading = Fail(400)
  BY <1>6 DEF IsReading, Fail, IsGood, Statuses, reading
<1>7. CASE IsGood(decoded) /\ enabled /\ reading = ReadTableInsert(v)
  BY <1>2, <1>7, TableInsertIsSound DEF reading
<1>8. CASE IsGood(decoded) /\ reading = Good(Plan(0, after))
  BY <1>3, <1>8 DEF IsReading, Good, Plan, IsGood, Statuses, reading
<1> QED
  BY <1>4, <1>5, <1>6, <1>7, <1>8

\* Whatever route a request takes, it becomes an insert only if it may write.
LEMMA ReadingIsSound ==
  ASSUME NEW h, NEW r \in HttpRequests, NEW v, Admitted(h, r, v)
  PROVE  IsReading(h, r, ReadRequest(r, v))
<1> DEFINE reading == ReadRequest(r, v)
<1>0. r.target # "params" => r.params = <<>>
  BY DEF HttpRequests
<1>1. ASSUME v.kind \in {"query", "insert", "table"}, v.access = "rw"
      PROVE  Writes(h, r)
  BY <1>0, <1>1 DEF Admitted, Writes
<1>2. CASE v.kind \in {"ping", "ready", "metrics"}
  <2> DEFINE plan == Plan(0, Good(Probe(v.kind)))
  <2>1. reading = Good(plan) \/ reading = Fail(400)
    BY <1>2 DEF ReadRequest
  <2>2. plan.after = Good(Probe(v.kind)) /\ Probe(v.kind).kind = v.kind
    BY DEF Plan, Probe, Ingest
  <2>3. IsOutcome(h, r, plan.after)
    BY <1>2, <2>2 DEF IsOutcome, Good, IsInsert, Statuses
  <2> HIDE DEF plan, reading
  <2> QED
    BY <2>1, <2>3 DEF IsReading, Good, Fail, IsGood, Statuses, reading
<1>3. CASE v.kind = "query"
  <2> DEFINE after == ClassifyStandardQuery(r.sql, v.format, NoParams.workload,
                                            AllowsInsert(v.access) /\ v.format = None)
  <2>1. IsOutcome(h, r, after)
    BY <1>1, <1>3, Classified DEF AllowsInsert
  <2>2. reading = ReadSqlBody(r, v, after)
    BY <1>3 DEF ReadRequest
  <2> HIDE DEF after
  <2> QED
    BY <2>1, <2>2, SqlBodyIsSound
<1>4. CASE v.kind = "insert"
  <2>1. IsOutcome(h, r, Good(Insert(r.sql)))
    BY <1>1, <1>4 DEF Admitted, IsOutcome, Good, Statuses
  <2>2. reading = ReadSqlBody(r, v, Good(Insert(r.sql)))
    BY <1>4 DEF ReadRequest
  <2> QED
    BY <2>1, <2>2, SqlBodyIsSound
<1>5. CASE v.kind = "table"
  BY <1>1, <1>5, TableInsertIsSound DEF ReadRequest, Admitted
<1>6. CASE v.kind = "params"
  BY <1>6, ParameterizedIsSound DEF ReadRequest
<1> QED
  BY <1>2, <1>3, <1>4, <1>5, <1>6 DEF Admitted, Kinds

(***************************************************************************)
(* The exchanges.                                                          *)
(***************************************************************************)
IsExchange(b) ==
  DOMAIN b = {"phase", "handler", "request", "cap", "accepted_at", "read_timeout",
              "write_timeout", "wake", "header_read", "body_read", "plan", "task",
              "touched", "status", "unsent", "result"}

Applied(e, s) == \E k \in DOMAIN s : s[k] = e

AllowedBy(h, r) == Configured(h) => Granted(h, r) # {}

\* An exchange that waits does so until its absolute deadline.
Timed(b, t) ==
  /\ b.accepted_at \in Nat /\ b.read_timeout \in Nat /\ b.write_timeout \in Nat
  /\ b.phase \in {"header", "body"} => b.wake = b.accepted_at + b.read_timeout /\ t <= b.wake
  /\ b.phase = "write" => b.wake = b.accepted_at + b.write_timeout /\ t <= b.wake

\* What the handler knows and has done without the request, and with it.
Unasked(b) == b.request = None /\ ~(b.body_read > 0) /\ ~b.touched
Vetted(b) ==
  /\ b.request # None =>
       b.request \in HttpRequests /\ b.handler \in Handlers /\ ValidConfiguration(b.handler)
  /\ b.body_read > 0 \/ b.touched => b.request # None /\ AllowedBy(b.handler, b.request)
Planned(b) ==
  b.request # None /\ AllowedBy(b.handler, b.request)

\* The exchange is served by one of the handlers it may be served by.
Served(e, b) == \E p \in Profiles(e) : b.handler = p.handler /\ b.cap = p.cap

Informed(e, b) ==
  /\ b.phase \in {"start", "header"} => Served(e, b)
  /\ b.phase \notin {"absent", "idle"} => b.handler \in Handlers
  /\ b.phase \in {"absent", "idle", "start", "header"} => Unasked(b)
  /\ b.phase = "header" => ValidConfiguration(b.handler)
  /\ Vetted(b)
  /\ b.phase \in {"body", "body_read", "task", "locked"} => Planned(b)
  /\ b.phase \in {"body", "body_read"} => IsOutcome(b.handler, b.request, b.plan.after)
  /\ b.phase \in {"task", "locked"} /\ IsInsert(b.task) => Writes(b.handler, b.request)

\* What was answered, and what was inserted: an insert that is under way has a
\* success response that fits.
Answered(e, b, s) ==
  /\ b.phase \notin {"write", "done"} =>
       ~Applied(e, s) /\ b.status = 0 /\ b.result = "none"
  /\ b.phase = "write" => b.status # 0 /\ b.result = "none"
  /\ b.phase = "locked" /\ IsInsert(b.task) => ResponseHead + 0 <= b.cap
  /\ b.phase \in {"write", "done"} /\ b.status = 200 /\ IsInsert(b.task) /\ b.task # None =>
       Applied(e, s)
  /\ Applied(e, s) => /\ b.status = 200 /\ b.result \in {"none", "ok", "write_error"}
                      /\ b.request # None /\ Writes(b.handler, b.request)
  /\ b.result = "ok" => b.status # 0 /\ b.unsent = 0
  /\ b.result = "limit_error" => b.status = 0

Sound(e, b, t, s) == IsExchange(b) /\ Timed(b, t) /\ Informed(e, b) /\ Answered(e, b, s)

\* The inductive invariant: every exchange is sound, and no exchange's rows
\* are there twice.
IInv ==
  /\ DOMAIN x = Exchanges /\ now \in Nat /\ rows \in Seq(Exchanges)
  /\ \A e \in Exchanges : Sound(e, x[e], now, rows)
  /\ \A j, k \in DOMAIN rows : rows[j] = rows[k] => j = k

\* An exchange's deadlines and cap stay what they were.
Kept(e, b) ==
  /\ IsExchange(b)
  /\ b.accepted_at = x[e].accepted_at /\ b.read_timeout = x[e].read_timeout
  /\ b.write_timeout = x[e].write_timeout /\ b.cap = x[e].cap

\* A blocking call waits until the absolute deadline, or times out at once.
LEMMA BlockingEffect ==
  ASSUME NEW e \in Exchanges, Timed(x[e], now), now \in Nat,
         NEW side \in {"read_timeout", "write_timeout"}, NEW b, NEW error
  PROVE  \/ Blocking(e, b, side, error) = [b EXCEPT !.phase = "done", !.result = error]
         \/ /\ Blocking(e, b, side, error) = [b EXCEPT !.wake = x[e].accepted_at + x[e][side]]
            /\ now <= x[e].accepted_at + x[e][side]
<1> DEFINE deadline == x[e].accepted_at + x[e][side]
<1>1. deadline \in Nat
  BY DEF Timed
<1>2. DeadlineRemaining(e, side) = IF deadline > now THEN deadline - now ELSE 0
  BY DEF DeadlineRemaining
<1> HIDE DEF deadline
<1>3. CASE deadline > now
  <2>1. DeadlineRemaining(e, side) # 0 /\ now + DeadlineRemaining(e, side) = deadline
    BY <1>1, <1>2, <1>3
  <2> QED
    BY <1>1, <1>3, <2>1 DEF Blocking, deadline
<1>4. CASE ~(deadline > now)
  BY <1>1, <1>2, <1>4 DEF Blocking
<1> QED
  BY <1>3, <1>4

\* A response that is being written, and one that is not.
Writing(e, b, s, u) ==
  [b EXCEPT !.phase = "write", !.status = s, !.unsent = u,
            !.wake = x[e].accepted_at + x[e].write_timeout]
Unwritten(b, s, u) ==
  [b EXCEPT !.phase = "done", !.status = s, !.unsent = u, !.result = "write_error"]

\* c is b answered with status and a body.
Responds(e, b, status, body, c) ==
  \/ ~Fits(e, body) /\ c = [b EXCEPT !.phase = "done", !.result = "limit_error"]
  \/ \E s, u : /\ s = status \/ (s = 500 /\ ~Fits(e, body))
               /\ \/ c = Unwritten(b, s, u)
                  \/ /\ c = Writing(e, b, s, u)
                     /\ now <= x[e].accepted_at + x[e].write_timeout

\* A response is written whole with its own status, or with 500 in its place
\* if it does not fit, or not at all.
LEMMA RespondEffect ==
  ASSUME NEW e \in Exchanges, Timed(x[e], now), now \in Nat,
         NEW b, Kept(e, b), NEW status, NEW body
  PROVE  Responds(e, b, status, body, Respond(e, b, status, body))
<1> DEFINE ready(s, u) == [b EXCEPT !.phase = "write", !.status = s, !.unsent = u]
           sent(s, u) == Blocking(e, ready(s, u), "write_timeout", "write_error")
           response == Respond(e, b, status, body)
<1>1. ASSUME NEW s, NEW u
      PROVE  \/ sent(s, u) = Unwritten(b, s, u)
             \/ /\ sent(s, u) = Writing(e, b, s, u)
                /\ now <= x[e].accepted_at + x[e].write_timeout
  <2>1. [ready(s, u) EXCEPT !.phase = "done", !.result = "write_error"] = Unwritten(b, s, u)
    BY DEF Unwritten, Kept, IsExchange
  <2>2. [ready(s, u) EXCEPT !.wake = x[e].accepted_at + x[e]["write_timeout"]] =
          Writing(e, b, s, u)
    BY DEF Writing, Kept, IsExchange
  <2> HIDE DEF ready
  <2>3. \/ sent(s, u) = [ready(s, u) EXCEPT !.phase = "done", !.result = "write_error"]
        \/ /\ sent(s, u) = [ready(s, u) EXCEPT !.wake = x[e].accepted_at + x[e]["write_timeout"]]
           /\ now <= x[e].accepted_at + x[e]["write_timeout"]
    BY BlockingEffect, Zenon
  <2> QED
    BY <2>1, <2>2, <2>3
<1>2. \/ ~Fits(e, body) /\ response = [b EXCEPT !.phase = "done", !.result = "limit_error"]
      \/ response = sent(status, ResponseHead + body)
      \/ ~Fits(e, body) /\ response = sent(500, ResponseHead + LimitErrorBody)
  BY DEF Respond
<1> HIDE DEF sent, response
<1> QED
  BY <1>1, <1>2 DEF Responds, response

\* An exchange that can be answered with status: nothing was answered before,
\* and the answer is 200 exactly for an insert that was applied.
Answerable(e, b, s, status, body) ==
  /\ b.handler \in Handlers /\ Vetted(b)
  /\ b.status = 0 /\ b.result = "none" /\ status # 0
  /\ status = 200 /\ IsInsert(b.task) /\ b.task # None => Applied(e, s)
  /\ Applied(e, s) =>
       status = 200 /\ Fits(e, body) /\ b.request # None /\ Writes(b.handler, b.request)

\* Every response leaves the exchange sound: replaced by the limit error only
\* where nothing was applied.
LEMMA RespondIsSound ==
  ASSUME NEW e \in Exchanges, Timed(x[e], now), now \in Nat, NEW s,
         NEW b, Kept(e, b), NEW status, NEW body, Answerable(e, b, s, status, body)
  PROVE  Sound(e, Respond(e, b, status, body), now, s)
<1> DEFINE c == Respond(e, b, status, body)
<1>0. IsExchange(b)
  BY DEF Kept
<1>1. CASE /\ ~Fits(e, body)
           /\ c = [b EXCEPT !.phase = "done", !.result = "limit_error"]
  <2> HIDE DEF c
  <2>1. /\ IsExchange(c) /\ c.phase = "done" /\ c.result = "limit_error"
        /\ c.status = b.status /\ c.handler = b.handler /\ c.request = b.request
        /\ c.body_read = b.body_read /\ c.touched = b.touched
        /\ c.accepted_at = b.accepted_at /\ c.read_timeout = b.read_timeout
        /\ c.write_timeout = b.write_timeout
    BY <1>0, <1>1 DEF IsExchange
  <2>2. ~Applied(e, s)
    BY <1>1 DEF Answerable
  <2>3. Timed(c, now)
    BY <2>1 DEF Timed, Kept
  <2>4. Informed(e, c)
    BY <2>1 DEF Informed, Answerable, Vetted, Unasked
  <2>5. Answered(e, c, s)
    BY <2>1, <2>2 DEF Answered, Answerable
  <2> QED
    BY <2>1, <2>3, <2>4, <2>5 DEF Sound, c
<1>2. ASSUME NEW t, NEW u, t = status \/ (t = 500 /\ ~Fits(e, body)),
             \/ c = Unwritten(b, t, u)
             \/ c = Writing(e, b, t, u) /\ now <= x[e].accepted_at + x[e].write_timeout
      PROVE  Sound(e, c, now, s)
  <2> HIDE DEF c
  <2>1. /\ IsExchange(c) /\ c.status = t /\ c.handler = b.handler /\ c.request = b.request
        /\ c.body_read = b.body_read /\ c.touched = b.touched /\ c.task = b.task
        /\ c.accepted_at = b.accepted_at /\ c.read_timeout = b.read_timeout
        /\ c.write_timeout = b.write_timeout
    <3>1. CASE c = Unwritten(b, t, u)
      BY <1>0, <3>1 DEF IsExchange, Unwritten
    <3>2. CASE c = Writing(e, b, t, u)
      BY <1>0, <3>2 DEF IsExchange, Writing
    <3> QED
      BY <1>2, <3>1, <3>2
  <2>2. \/ c.phase = "done" /\ c.result = "write_error"
        \/ /\ c.phase = "write" /\ c.result = b.result
           /\ c.wake = x[e].accepted_at + x[e].write_timeout /\ now <= c.wake
    <3>1. CASE c = Unwritten(b, t, u)
      BY <1>0, <3>1 DEF IsExchange, Unwritten
    <3>2. CASE c = Writing(e, b, t, u) /\ now <= x[e].accepted_at + x[e].write_timeout
      BY <1>0, <3>2 DEF IsExchange, Writing
    <3> QED
      BY <1>2, <3>1, <3>2
  <2>3. t # 0 /\ (Applied(e, s) => t = 200) /\ (t = 200 => t = status)
    BY <1>2 DEF Answerable
  <2>4. Timed(c, now)
    BY <2>1, <2>2 DEF Timed, Kept
  <2>5. Informed(e, c)
    BY <2>1, <2>2 DEF Informed, Answerable, Vetted, Unasked
  <2>6. Answered(e, c, s)
    BY <2>1, <2>2, <2>3 DEF Answered, Answerable
  <2> QED
    BY <2>1, <2>4, <2>5, <2>6 DEF Sound, c
<1>3. Responds(e, b, status, body, c)
  BY RespondEffect
<1> HIDE DEF c
<1> QED
  BY <1>1, <1>2, <1>3 DEF Responds, c

\* An exchange that has not answered: no rows of it are there.
Unanswered(e, b, s) == ~Applied(e, s) /\ b.status = 0 /\ b.result = "none"

\* An exchange that fails before it answers leaves nothing behind.
LEMMA FailureIsSound ==
  ASSUME NEW e \in Exchanges, NEW s, NEW b, Kept(e, b), Timed(x[e], now),
         b.handler \in Handlers, Vetted(b), Unanswered(e, b, s),
         NEW error \in {"read_error", "write_error"}
  PROVE  Sound(e, [b EXCEPT !.phase = "done", !.result = error], now, s)
<1> DEFINE c == [b EXCEPT !.phase = "done", !.result = error]
<1>1. /\ IsExchange(c) /\ c.phase = "done" /\ c.result = error
      /\ c.status = b.status /\ c.handler = b.handler /\ c.request = b.request
      /\ c.body_read = b.body_read /\ c.touched = b.touched
      /\ c.accepted_at = b.accepted_at /\ c.read_timeout = b.read_timeout
      /\ c.write_timeout = b.write_timeout
  BY DEF IsExchange, Kept
<1> HIDE DEF c
<1>2. Timed(c, now)
  BY <1>1 DEF Timed, Kept
<1>3. Informed(e, c)
  BY <1>1 DEF Informed, Vetted, Unasked
<1>4. Answered(e, c, s)
  BY <1>1 DEF Answered, Unanswered
<1> QED
  BY <1>1, <1>2, <1>3, <1>4 DEF Sound, c

\* An exchange whose write fails: the answer was decided before.
LEMMA WriteFailureIsSound ==
  ASSUME NEW e \in Exchanges, NEW s, NEW b, Kept(e, b), Timed(x[e], now),
         b.phase = "write", Informed(e, b), Answered(e, b, s)
  PROVE  Sound(e, [b EXCEPT !.phase = "done", !.result = "write_error"], now, s)
<1> DEFINE c == [b EXCEPT !.phase = "done", !.result = "write_error"]
<1>1. /\ IsExchange(c) /\ c.phase = "done" /\ c.result = "write_error"
      /\ c.status = b.status /\ c.handler = b.handler /\ c.request = b.request
      /\ c.body_read = b.body_read /\ c.touched = b.touched /\ c.task = b.task
      /\ c.accepted_at = b.accepted_at /\ c.read_timeout = b.read_timeout
      /\ c.write_timeout = b.write_timeout
  BY DEF IsExchange, Kept
<1> HIDE DEF c
<1>2. Timed(c, now)
  BY <1>1 DEF Timed, Kept
<1>3. Informed(e, c)
  BY <1>1 DEF Informed, Vetted, Unasked
<1>4. Answered(e, c, s)
  BY <1>1 DEF Answered
<1> QED
  BY <1>1, <1>2, <1>3, <1>4 DEF Sound, c

\* An exchange that goes on to a read or a write waits for its deadline.
LEMMA WaitIsSound ==
  ASSUME NEW e \in Exchanges, NEW s, NEW b, Kept(e, b), Timed(x[e], now),
         Informed(e, b), Answered(e, b, s), NEW deadline, now <= deadline,
         \/ b.phase \in {"header", "body"} /\ deadline = b.accepted_at + b.read_timeout
         \/ b.phase = "write" /\ deadline = b.accepted_at + b.write_timeout
  PROVE  Sound(e, [b EXCEPT !.wake = deadline], now, s)
<1> DEFINE c == [b EXCEPT !.wake = deadline]
<1>1. /\ IsExchange(c) /\ c.phase = b.phase /\ c.result = b.result
      /\ c.status = b.status /\ c.handler = b.handler /\ c.request = b.request
      /\ c.body_read = b.body_read /\ c.touched = b.touched /\ c.task = b.task
      /\ c.accepted_at = b.accepted_at /\ c.read_timeout = b.read_timeout
      /\ c.write_timeout = b.write_timeout /\ c.wake = deadline /\ c.plan = b.plan
      /\ c.unsent = b.unsent /\ c.cap = b.cap
  BY DEF IsExchange, Kept
<1> HIDE DEF c
<1>2. Timed(c, now)
  BY <1>1 DEF Timed, Kept
<1>3. Informed(e, c)
  BY <1>1 DEF Informed, Served, Vetted, Unasked, Planned
<1>4. Answered(e, c, s)
  BY <1>1 DEF Answered
<1> QED
  BY <1>1, <1>2, <1>3, <1>4 DEF Sound, c

\* Every read that may block keeps the exchange sound.
LEMMA ReadIsSound ==
  ASSUME NEW e \in Exchanges, Timed(x[e], now), now \in Nat, NEW s,
         NEW b, Kept(e, b), b.phase \in {"header", "body"}, Informed(e, b), Answered(e, b, s)
  PROVE  Sound(e, Blocking(e, b, "read_timeout", "read_error"), now, s)
<1> DEFINE c == Blocking(e, b, "read_timeout", "read_error")
           deadline == x[e].accepted_at + x[e]["read_timeout"]
<1>1. \/ c = [b EXCEPT !.phase = "done", !.result = "read_error"]
      \/ c = [b EXCEPT !.wake = deadline] /\ now <= deadline
  BY ZenonT(60), BlockingEffect
<1>2. deadline = b.accepted_at + b.read_timeout
  BY DEF Kept
<1> HIDE DEF c, deadline
<1>3. CASE c = [b EXCEPT !.phase = "done", !.result = "read_error"]
  <2>1. IsExchange(b) /\ b.handler \in Handlers /\ Vetted(b)
        /\ Unanswered(e, b, s)
    BY DEF Kept, Informed, Answered, Unanswered
  <2>2. Sound(e, [b EXCEPT !.phase = "done", !.result = "read_error"], now, s)
    BY <2>1, FailureIsSound
  <2> QED
    BY <1>3, <2>2 DEF c
<1>4. CASE c = [b EXCEPT !.wake = deadline] /\ now <= deadline
  <2>1. Sound(e, [b EXCEPT !.wake = deadline], now, s)
    BY <1>2, <1>4, WaitIsSound
  <2> QED
    BY <1>4, <2>1 DEF c
<1> QED
  BY <1>1, <1>3, <1>4

\* An error status answers any exchange that nothing was inserted for.
LEMMA ErrorIsSound ==
  ASSUME NEW e \in Exchanges, Timed(x[e], now), now \in Nat, NEW s,
         NEW b, Kept(e, b), b.handler \in Handlers, Vetted(b), Unanswered(e, b, s),
         NEW status, status # 0, status # 200, NEW body
  PROVE  Sound(e, Respond(e, b, status, body), now, s)
<1>1. Answerable(e, b, s, status, body)
  BY DEF Answerable, Unanswered
<1> QED
  BY <1>1, RespondIsSound

\* A step of one exchange that leaves the rows and the clock alone.
LEMMA OneExchange ==
  ASSUME IInv, NEW e \in Exchanges, NEW c, x' = [x EXCEPT ![e] = c],
         UNCHANGED <<rows, now>>, Sound(e, c, now, rows)
  PROVE  IInv'
<1>1. /\ DOMAIN x' = Exchanges /\ x'[e] = c
      /\ \A f \in Exchanges : f # e => x'[f] = x[f]
  BY DEF IInv
<1>2. \A f \in Exchanges : Sound(f, x'[f], now', rows')
  BY <1>1 DEF IInv
<1> QED
  BY <1>1, <1>2 DEF IInv

\* The exchange an action takes up.
LEMMA TakenUp ==
  ASSUME IInv, NEW e \in Exchanges
  PROVE  /\ IsExchange(x[e]) /\ Kept(e, x[e]) /\ Timed(x[e], now) /\ Informed(e, x[e])
         /\ Answered(e, x[e], rows) /\ Vetted(x[e]) /\ now \in Nat
         /\ x[e].phase \notin {"absent", "idle"} => x[e].handler \in Handlers
         /\ x[e].phase \notin {"write", "done"} => Unanswered(e, x[e], rows)
<1>1. Sound(e, x[e], now, rows)
  BY DEF IInv
<1> QED
  BY <1>1 DEF IInv, Sound, Kept, Informed, Answered, Unanswered

(***************************************************************************)
(* Every step keeps the invariant.                                         *)
(***************************************************************************)
\* No exchange has begun and no rows are there.
LEMMA InitIInv == Init => IInv
<1>1. SUFFICES ASSUME Init PROVE IInv
  OBVIOUS
<1>2. rows = <<>> /\ now = 0
  BY <1>1 DEF Init
<1>3. DOMAIN rows = {} /\ rows \in Seq(Exchanges)
  BY <1>2
<1>4. PICK lineup \in Lineups :
        x = [e \in Exchanges |-> IF e \in lineup THEN Fresh ELSE [Fresh EXCEPT !.phase = "absent"]]
  BY <1>1 DEF Init
<1>5. ASSUME NEW e \in Exchanges
      PROVE  Sound(e, x[e], now, rows)
  <2> DEFINE b == x[e]
  <2>1. b = Fresh \/ b = [Fresh EXCEPT !.phase = "absent"]
    BY <1>4
  <2> HIDE DEF b
  <2>2. /\ IsExchange(b) /\ b.phase \in {"idle", "absent"} /\ b.request = None
        /\ b.accepted_at = 0 /\ b.read_timeout = 0 /\ b.write_timeout = 0
        /\ b.body_read = 0 /\ b.touched = FALSE /\ b.status = 0 /\ b.result = "none"
    BY <2>1 DEF Fresh, IsExchange
  <2>3. Timed(b, now)
    BY <2>2 DEF Timed
  <2>4. Informed(e, b)
    BY <2>2 DEF Informed, Vetted, Unasked
  <2>5. Answered(e, b, rows)
    BY <1>3, <2>2 DEF Answered, Applied
  <2> QED
    BY <2>2, <2>3, <2>4, <2>5 DEF Sound, b
<1> QED
  BY <1>2, <1>3, <1>4, <1>5 DEF IInv

\* A connection is accepted: its deadlines count from now.
LEMMA StartIInv ==
  ASSUME IInv, NEW e \in Exchanges, Start(e)
  PROVE  IInv'
<1>1. PICK p \in Profiles(e) :
        x' = [x EXCEPT ![e] = [Fresh EXCEPT !.phase = "start", !.accepted_at = now,
                                 !.handler = p.handler, !.cap = p.cap,
                                 !.read_timeout = p.read_timeout,
                                 !.write_timeout = p.write_timeout]]
  BY DEF Start
<1> DEFINE c == [Fresh EXCEPT !.phase = "start", !.accepted_at = now,
                   !.handler = p.handler, !.cap = p.cap,
                   !.read_timeout = p.read_timeout, !.write_timeout = p.write_timeout]
<1>2. /\ IsExchange(c) /\ c.phase = "start" /\ c.request = None /\ c.handler = p.handler
      /\ c.accepted_at = now /\ c.read_timeout = p.read_timeout
      /\ c.write_timeout = p.write_timeout /\ c.cap = p.cap
      /\ c.body_read = 0 /\ c.touched = FALSE /\ c.status = 0 /\ c.result = "none"
  BY DEF Fresh, IsExchange
<1>3. x' = [x EXCEPT ![e] = c]
  BY <1>1
<1> HIDE DEF c
<1>4. p.handler \in Handlers /\ p.read_timeout \in Nat /\ p.write_timeout \in Nat
  BY ExchangeAssumption
<1>5. now \in Nat /\ ~Applied(e, rows)
  BY TakenUp DEF Start, Unanswered
<1>6. Timed(c, now)
  BY <1>2, <1>4, <1>5 DEF Timed
<1>7. Informed(e, c)
  BY <1>2, <1>4 DEF Informed, Served, Vetted, Unasked
<1>8. Answered(e, c, rows)
  BY <1>2, <1>5 DEF Answered
<1>9. Sound(e, c, now, rows)
  BY <1>2, <1>6, <1>7, <1>8 DEF Sound
<1> QED
  BY <1>3, <1>9, OneExchange DEF Start

\* An error response, as the handlers send it.
LEMMA RefuseIsSound ==
  ASSUME NEW e \in Exchanges, Timed(x[e], now), now \in Nat, NEW s,
         NEW b, Kept(e, b), b.handler \in Handlers, Vetted(b), Unanswered(e, b, s),
         NEW status, status # 0, status # 200
  PROVE  Sound(e, Refuse(e, b, status), now, s)
  BY ErrorIsSound DEF Refuse

\* An exchange that goes on to another phase.
LEMMA PhaseOf ==
  ASSUME NEW e, NEW b, Kept(e, b), NEW phase
  PROVE  LET c == [b EXCEPT !.phase = phase]
         IN  /\ Kept(e, c) /\ c.phase = phase
             /\ c.result = b.result /\ c.status = b.status /\ c.handler = b.handler
             /\ c.request = b.request /\ c.body_read = b.body_read /\ c.touched = b.touched
             /\ c.task = b.task /\ c.plan = b.plan /\ c.unsent = b.unsent /\ c.wake = b.wake
  BY DEF Kept, IsExchange

\* The deadlines and the configuration are checked, then the first byte is
\* waited for.
LEMMA BeginIInv ==
  ASSUME IInv, NEW e \in Exchanges, Begin(e)
  PROVE  IInv'
<1> DEFINE b == x[e]
           h == [b EXCEPT !.phase = "header"]
           c == IF b.accepted_at + b.read_timeout > ClockMax
                THEN [b EXCEPT !.phase = "done", !.result = "read_error"]
                ELSE IF b.accepted_at + b.write_timeout > ClockMax
                THEN [b EXCEPT !.phase = "done", !.result = "write_error"]
                ELSE IF ~ValidConfiguration(b.handler) THEN Refuse(e, b, 500)
                ELSE IF MaxHeaderBytes = 0 THEN Refuse(e, b, 431)
                ELSE Blocking(e, h, "read_timeout", "read_error")
<1>1. x' = [x EXCEPT ![e] = c] /\ UNCHANGED <<rows, now>> /\ b.phase = "start"
  BY DEF Begin
<1>2. /\ Kept(e, b) /\ Timed(b, now) /\ Informed(e, b) /\ Vetted(b) /\ now \in Nat
      /\ Answered(e, b, rows) /\ b.handler \in Handlers /\ Unanswered(e, b, rows)
  BY <1>1, TakenUp
<1>3. \A error \in {"read_error", "write_error"} :
        Sound(e, [b EXCEPT !.phase = "done", !.result = error], now, rows)
  BY <1>2, FailureIsSound
<1>4. \A status \in {500, 431} : Sound(e, Refuse(e, b, status), now, rows)
  BY <1>2, RefuseIsSound
<1>5. ASSUME ValidConfiguration(b.handler)
      PROVE  Sound(e, Blocking(e, h, "read_timeout", "read_error"), now, rows)
  <2>1. /\ Kept(e, h) /\ h.phase = "header" /\ h.handler = b.handler /\ h.request = b.request
        /\ h.result = b.result /\ h.status = b.status /\ h.body_read = b.body_read
        /\ h.touched = b.touched /\ h.unsent = b.unsent /\ h.cap = b.cap
    BY <1>2, PhaseOf DEF Kept
  <2> HIDE DEF h
  <2>2. Informed(e, h)
    BY <1>1, <1>2, <1>5, <2>1 DEF Informed, Served, Vetted, Unasked
  <2>3. Answered(e, h, rows)
    BY <1>1, <1>2, <2>1 DEF Answered
  <2> QED
    BY <1>2, <2>1, <2>2, <2>3, ReadIsSound
<1> HIDE DEF b, h
<1>6. Sound(e, c, now, rows)
  BY <1>3, <1>4, <1>5
<1> HIDE DEF c
<1> QED
  BY <1>1, <1>6, OneExchange

\* The header block is complete: a request that is refused was not vetted, and
\* one that is not has the credentials and the plan that go with it.
LEMMA DecideIsSound ==
  ASSUME NEW e \in Exchanges, Timed(x[e], now), now \in Nat,
         NEW b, Kept(e, b), b.phase = "header", b.handler \in Handlers,
         ValidConfiguration(b.handler), b.request \in HttpRequests \ {None},
         ~(b.body_read > 0), ~b.touched, Unanswered(e, b, rows),
         b.result # "ok"
  PROVE  Sound(e, Decide(e, b), now, rows)
<1> DEFINE parsed == ParseHeaders(b.handler, b.request)
           planned == ReadRequest(b.request, parsed.value)
           ready == [b EXCEPT !.plan = planned.value, !.phase = "body_read"]
           reading == [b EXCEPT !.plan = planned.value, !.phase = "body"]
           c == Decide(e, b)
<1>1. c = IF ~IsGood(parsed) THEN Refuse(e, b, parsed.status)
          ELSE IF ~IsGood(planned) THEN Refuse(e, b, planned.status)
          ELSE IF planned.value.length = 0 THEN ready
          ELSE Blocking(e, reading, "read_timeout", "read_error")
  BY DEF Decide
<1>2. /\ parsed.status \in Statuses
      /\ IsGood(parsed) => Admitted(b.handler, b.request, parsed.value)
  BY HeadersAreAdmitted
<1>3. IsGood(parsed) => IsReading(b.handler, b.request, planned)
  BY <1>2, ReadingIsSound
<1>4. Vetted(b)
  BY DEF Vetted
<1>5. ASSUME NEW status, status \in Statuses, status # 200
      PROVE  Sound(e, Refuse(e, b, status), now, rows)
  <2>1. status # 0
    BY <1>5 DEF Statuses
  <2> QED
    BY <1>4, <1>5, <2>1, RefuseIsSound
<1>6. ASSUME IsGood(parsed), IsGood(planned), NEW d, d \in {ready, reading}
      PROVE  /\ Kept(e, d) /\ Informed(e, d) /\ Answered(e, d, rows)
             /\ d = reading => d.phase = "body"
             /\ d = ready => Timed(d, now)
  <2>1. /\ Kept(e, d) /\ d.phase \in {"body", "body_read"}
        /\ d = reading => d.phase = "body"
        /\ d = ready => d.phase = "body_read"
        /\ d.result = b.result /\ d.status = b.status /\ d.handler = b.handler
        /\ d.request = b.request /\ d.body_read = b.body_read /\ d.touched = b.touched
        /\ d.plan = planned.value
    BY ZenonT(60), <1>6 DEF Kept, IsExchange
  <2>2. Planned(d) /\ IsOutcome(d.handler, d.request, d.plan.after)
    BY <1>2, <1>3, <1>6, <2>1 DEF Planned, AllowedBy, Admitted, IsReading
  <2> HIDE DEF ready, reading
  <2>3. Informed(e, d)
    BY <1>4, <2>1, <2>2 DEF Informed, Vetted, Planned
  <2>4. Answered(e, d, rows)
    BY <2>1 DEF Answered, Unanswered
  <2>5. d = ready => Timed(d, now)
    BY <2>1 DEF Timed, Kept
  <2> QED
    BY <2>1, <2>3, <2>4, <2>5
<1>7. CASE ~IsGood(parsed)
  BY <1>1, <1>2, <1>5, <1>7 DEF IsGood
<1>8. CASE IsGood(parsed) /\ ~IsGood(planned)
  <2>1. planned.status \in Statuses /\ planned.status # 200
    BY <1>3, <1>8 DEF IsReading, IsGood
  <2>2. c = Refuse(e, b, planned.status)
    BY <1>1, <1>8
  <2> QED
    BY <1>5, <2>1, <2>2
<1> HIDE DEF parsed, planned, ready, reading, c
<1>9. CASE IsGood(parsed) /\ IsGood(planned) /\ planned.value.length = 0
  <2>1. Sound(e, ready, now, rows)
    BY <1>6, <1>9 DEF Sound, Kept
  <2> QED
    BY <1>1, <1>9, <2>1 DEF c
<1>10. CASE IsGood(parsed) /\ IsGood(planned) /\ planned.value.length # 0
  <2>1. Sound(e, Blocking(e, reading, "read_timeout", "read_error"), now, rows)
    BY <1>6, <1>10, ReadIsSound
  <2> QED
    BY <1>1, <1>10, <2>1 DEF c
<1> QED
  BY <1>7, <1>8, <1>9, <1>10 DEF c

\* One more header byte: the request is known with the last one.
LEMMA ReadHeaderByteIInv ==
  ASSUME IInv, NEW e \in Exchanges, ReadHeaderByte(e)
  PROVE  IInv'
<1>1. PICK r \in Requests(e, x[e].handler, x[e].cap), framed \in BOOLEAN :
        LET b == [x[e] EXCEPT !.header_read = @ + 1] IN
        x' = [x EXCEPT ![e] =
                IF ~framed THEN Refuse(e, b, 400)
                ELSE IF b.header_read = r.header_bytes THEN Decide(e, [b EXCEPT !.request = r])
                ELSE IF b.header_read >= MaxHeaderBytes THEN Refuse(e, b, 431)
                ELSE Blocking(e, b, "read_timeout", "read_error")]
  BY DEF ReadHeaderByte
<1> DEFINE b == [x[e] EXCEPT !.header_read = @ + 1]
           d == [b EXCEPT !.request = r]
           c == IF ~framed THEN Refuse(e, b, 400)
                ELSE IF b.header_read = r.header_bytes THEN Decide(e, d)
                ELSE IF b.header_read >= MaxHeaderBytes THEN Refuse(e, b, 431)
                ELSE Blocking(e, b, "read_timeout", "read_error")
<1>2. x' = [x EXCEPT ![e] = c] /\ UNCHANGED <<rows, now>> /\ x[e].phase = "header"
  BY <1>1 DEF ReadHeaderByte
<1>3. /\ Kept(e, x[e]) /\ Timed(x[e], now) /\ Informed(e, x[e]) /\ now \in Nat
      /\ Answered(e, x[e], rows) /\ x[e].handler \in Handlers /\ Unanswered(e, x[e], rows)
  BY <1>2, TakenUp
<1>4. /\ Kept(e, b) /\ b.phase = "header" /\ b.handler = x[e].handler
      /\ b.request = x[e].request /\ b.result = x[e].result /\ b.status = x[e].status
      /\ b.body_read = x[e].body_read /\ b.touched = x[e].touched /\ b.unsent = x[e].unsent
  BY <1>2, <1>3 DEF Kept, IsExchange
<1> HIDE DEF b
<1>5. /\ Kept(e, d) /\ d.phase = "header" /\ d.handler = b.handler /\ d.request = r
      /\ d.result = b.result /\ d.status = b.status
      /\ d.body_read = b.body_read /\ d.touched = b.touched
  BY <1>4 DEF Kept, IsExchange
<1> HIDE DEF d
<1>6. /\ Unasked(b) /\ ValidConfiguration(b.handler) /\ Served(e, b)
      /\ b.handler \in Handlers /\ Unanswered(e, b, rows)
  BY <1>2, <1>3, <1>4 DEF Informed, Unasked, Served, Unanswered, Kept
<1>7. r \in HttpRequests \ {None}
  <2>1. PICK p \in Profiles(e) : x[e].handler = p.handler /\ x[e].cap = p.cap
    BY <1>2, <1>3 DEF Informed, Served
  <2>2. Requests(e, p.handler, p.cap) \subseteq HttpRequests \ {None}
    BY ExchangeAssumption
  <2> QED
    BY <1>1, <2>1, <2>2
<1>8. Vetted(b) /\ Informed(e, b) /\ Answered(e, b, rows)
  BY <1>4, <1>6 DEF Vetted, Informed, Unasked, Answered, Unanswered
<1>9. Sound(e, Refuse(e, b, 400), now, rows) /\ Sound(e, Refuse(e, b, 431), now, rows)
  BY <1>3, <1>4, <1>6, <1>8, RefuseIsSound
<1>10. Sound(e, Blocking(e, b, "read_timeout", "read_error"), now, rows)
  BY <1>3, <1>4, <1>8, ReadIsSound
<1>11. Sound(e, Decide(e, d), now, rows)
  <2>1. /\ d.handler \in Handlers /\ ValidConfiguration(d.handler)
        /\ d.request \in HttpRequests \ {None} /\ ~(d.body_read > 0) /\ ~d.touched
        /\ Unanswered(e, d, rows) /\ d.result # "ok"
    BY <1>5, <1>6, <1>7 DEF Unasked, Unanswered
  <2> QED
    BY <1>3, <1>5, <2>1, DecideIsSound
<1>12. Sound(e, c, now, rows)
  BY <1>9, <1>10, <1>11
<1> HIDE DEF c
<1> QED
  BY <1>2, <1>12, OneExchange

\* More of the body: only of a request that was let through.
LEMMA ReadBodyBytesIInv ==
  ASSUME IInv, NEW e \in Exchanges, ReadBodyBytes(e)
  PROVE  IInv'
<1>1. PICK n \in 1 .. x[e].plan.length - x[e].body_read :
        LET b == [x[e] EXCEPT !.body_read = @ + n] IN
        x' = [x EXCEPT ![e] = IF b.body_read = b.plan.length THEN [b EXCEPT !.phase = "body_read"]
                              ELSE Blocking(e, b, "read_timeout", "read_error")]
  BY DEF ReadBodyBytes
<1> DEFINE b == [x[e] EXCEPT !.body_read = @ + n]
           d == [b EXCEPT !.phase = "body_read"]
           c == IF b.body_read = b.plan.length THEN d
                ELSE Blocking(e, b, "read_timeout", "read_error")
<1>2. x' = [x EXCEPT ![e] = c] /\ UNCHANGED <<rows, now>> /\ x[e].phase = "body"
  BY <1>1 DEF ReadBodyBytes
<1>3. /\ Kept(e, x[e]) /\ Timed(x[e], now) /\ Informed(e, x[e]) /\ now \in Nat
      /\ Answered(e, x[e], rows) /\ Unanswered(e, x[e], rows)
  BY <1>2, TakenUp
<1>4. /\ Kept(e, b) /\ b.phase = "body" /\ b.handler = x[e].handler
      /\ b.request = x[e].request /\ b.result = x[e].result /\ b.status = x[e].status
      /\ b.touched = x[e].touched /\ b.plan = x[e].plan
  BY <1>2, <1>3 DEF Kept, IsExchange
<1> HIDE DEF b
<1>5. /\ Kept(e, d) /\ d.phase = "body_read" /\ d.handler = b.handler
      /\ d.request = b.request /\ d.result = b.result /\ d.status = b.status
      /\ d.touched = b.touched /\ d.plan = b.plan
  BY <1>4 DEF Kept, IsExchange
<1> HIDE DEF d
<1>6. /\ Planned(x[e]) /\ Vetted(x[e]) /\ x[e].handler \in Handlers
      /\ IsOutcome(x[e].handler, x[e].request, x[e].plan.after)
  BY <1>2, <1>3 DEF Informed
<1>7. Informed(e, b) /\ Answered(e, b, rows)
  BY <1>3, <1>4, <1>6 DEF Informed, Planned, Vetted, Answered, Unanswered
<1>8. Informed(e, d) /\ Answered(e, d, rows) /\ Timed(d, now)
  BY <1>3, <1>4, <1>5, <1>6 DEF Informed, Planned, Vetted, Answered, Unanswered, Timed, Kept
<1>9. Sound(e, d, now, rows)
  BY <1>5, <1>8 DEF Sound, Kept
<1>10. Sound(e, Blocking(e, b, "read_timeout", "read_error"), now, rows)
  BY <1>3, <1>4, <1>7, ReadIsSound
<1>11. Sound(e, c, now, rows)
  BY <1>9, <1>10
<1> HIDE DEF c
<1> QED
  BY <1>2, <1>11, OneExchange

\* A peer that closes while it is read from gets an error.
LEMMA PeerClosesIInv ==
  ASSUME IInv, NEW e \in Exchanges, PeerCloses(e)
  PROVE  IInv'
<1>1. /\ x' = [x EXCEPT ![e] = Refuse(e, x[e], 400)] /\ UNCHANGED <<rows, now>>
      /\ x[e].phase \in {"header", "body"}
  BY DEF PeerCloses
<1>2. Sound(e, Refuse(e, x[e], 400), now, rows)
  BY <1>1, TakenUp, RefuseIsSound
<1> QED
  BY <1>1, <1>2, OneExchange

\* A connection that fails or times out while it is read ends the exchange.
LEMMA ReadFailsIInv ==
  ASSUME IInv, NEW e \in Exchanges, ReadFails(e)
  PROVE  IInv'
<1> DEFINE c == [x[e] EXCEPT !.phase = "done", !.result = "read_error"]
<1>1. /\ x' = [x EXCEPT ![e] = c] /\ UNCHANGED <<rows, now>>
      /\ x[e].phase \in {"header", "body"}
  BY DEF ReadFails
<1>2. Sound(e, c, now, rows)
  BY <1>1, TakenUp, FailureIsSound
<1> HIDE DEF c
<1> QED
  BY <1>1, <1>2, OneExchange

\* A connection that fails while it is written to ends the exchange.
LEMMA WriteFailsIInv ==
  ASSUME IInv, NEW e \in Exchanges, WriteFails(e)
  PROVE  IInv'
<1> DEFINE c == [x[e] EXCEPT !.phase = "done", !.result = "write_error"]
<1>1. x' = [x EXCEPT ![e] = c] /\ UNCHANGED <<rows, now>> /\ x[e].phase = "write"
  BY DEF WriteFails
<1>2. Sound(e, c, now, rows)
  BY <1>1, TakenUp, WriteFailureIsSound
<1> HIDE DEF c
<1> QED
  BY <1>1, <1>2, OneExchange

\* A socket timeout ends the exchange as a failure does.
LEMMA TimesOutIInv ==
  ASSUME IInv, NEW e \in Exchanges, TimesOut(e)
  PROVE  IInv'
<1> DEFINE error == IF x[e].phase = "write" THEN "write_error" ELSE "read_error"
           c == [x[e] EXCEPT !.phase = "done", !.result = error]
<1>1. /\ x' = [x EXCEPT ![e] = c] /\ UNCHANGED <<rows, now>>
      /\ x[e].phase \in {"header", "body", "write"}
  BY DEF TimesOut
<1>2. Sound(e, c, now, rows)
  <2>1. CASE x[e].phase = "write"
    BY ZenonT(60), <2>1, TakenUp, WriteFailureIsSound
  <2>2. CASE x[e].phase \in {"header", "body"}
    BY <2>2, TakenUp, FailureIsSound
  <2> QED
    BY <1>1, <2>1, <2>2
<1> HIDE DEF c
<1> QED
  BY <1>1, <1>2, OneExchange

\* A success answers an exchange whose task is not an insert.
LEMMA SuccessIsSound ==
  ASSUME NEW e \in Exchanges, Timed(x[e], now), now \in Nat, NEW s,
         NEW b, Kept(e, b), b.handler \in Handlers, Vetted(b), Unanswered(e, b, s),
         ~IsInsert(b.task), NEW body
  PROVE  Sound(e, Respond(e, b, 200, body), now, s)
<1>1. Answerable(e, b, s, 200, body)
  BY DEF Answerable, Unanswered
<1> QED
  BY <1>1, RespondIsSound

\* The body is there: what it asks for becomes the task, or is refused.
LEMMA TakeTaskIInv ==
  ASSUME IInv, NEW e \in Exchanges, TakeTask(e)
  PROVE  IInv'
<1> DEFINE b == x[e]
           after == b.plan.after
           d == [b EXCEPT !.phase = "task", !.task = after.value]
           c == IF IsGood(after) THEN d ELSE Refuse(e, b, after.status)
<1>1. x' = [x EXCEPT ![e] = c] /\ UNCHANGED <<rows, now>> /\ b.phase = "body_read"
  BY DEF TakeTask
<1>2. /\ Kept(e, b) /\ Timed(b, now) /\ Informed(e, b) /\ now \in Nat
      /\ Answered(e, b, rows) /\ Unanswered(e, b, rows) /\ b.handler \in Handlers /\ Vetted(b)
  BY <1>1, TakenUp
<1>3. Planned(b) /\ IsOutcome(b.handler, b.request, after)
  BY <1>1, <1>2 DEF Informed
<1>4. ASSUME ~IsGood(after)
      PROVE  Sound(e, c, now, rows)
  <2>1. after.status # 0 /\ after.status # 200
    BY <1>3, <1>4 DEF IsOutcome, Statuses, IsGood
  <2> HIDE DEF after, b
  <2>2. Sound(e, Refuse(e, b, after.status), now, rows)
    BY <1>2, <2>1, RefuseIsSound DEF b
  <2> QED
    BY <1>4, <2>2
<1>5. ASSUME IsGood(after)
      PROVE  Sound(e, c, now, rows)
  <2>1. /\ Kept(e, d) /\ d.phase = "task" /\ d.task = after.value /\ d.handler = b.handler
        /\ d.request = b.request /\ d.result = b.result /\ d.status = b.status
        /\ d.touched = b.touched /\ d.body_read = b.body_read
    BY <1>2 DEF Kept, IsExchange
  <2>2. IsInsert(d.task) => Writes(d.handler, d.request)
    BY <1>3, <1>5, <2>1 DEF IsOutcome
  <2> HIDE DEF d, b
  <2>3. Informed(e, d)
    BY <1>2, <1>3, <2>1, <2>2 DEF Informed, Planned, Vetted
  <2>4. Answered(e, d, rows) /\ Timed(d, now)
    BY <1>2, <2>1 DEF Answered, Unanswered, Timed, Kept, b
  <2>5. Sound(e, d, now, rows)
    BY <2>1, <2>3, <2>4 DEF Sound, Kept
  <2> QED
    BY <1>5, <2>5
<1>6. Sound(e, c, now, rows)
  BY <1>4, <1>5
<1> HIDE DEF c
<1> QED
  BY <1>1, <1>6, OneExchange

\* GET /ping is answered at once.
LEMMA PingIInv ==
  ASSUME IInv, NEW e \in Exchanges, Ping(e)
  PROVE  IInv'
<1>1. /\ x' = [x EXCEPT ![e] = Respond(e, x[e], 200, 1)] /\ UNCHANGED <<rows, now>>
      /\ x[e].phase = "task" /\ ~IsInsert(x[e].task)
  BY DEF Ping, IsInsert
<1>2. Sound(e, Respond(e, x[e], 200, 1), now, rows)
  BY <1>1, TakenUp, SuccessIsSound
<1> QED
  BY <1>1, <1>2, OneExchange

\* Once the database is touched, the credentials were found good.
LEMMA TouchedIsVetted ==
  ASSUME IInv, NEW e \in Exchanges, x[e].phase \in {"task", "locked"}
  PROVE  LET b == [x[e] EXCEPT !.touched = TRUE]
         IN  /\ Kept(e, b) /\ Informed(e, b) /\ Vetted(b) /\ b.handler \in Handlers
             /\ Unanswered(e, b, rows) /\ b.task = x[e].task /\ b.phase = x[e].phase
             /\ b.request = x[e].request /\ b.handler = x[e].handler
<1> DEFINE b == [x[e] EXCEPT !.touched = TRUE]
<1>1. /\ Kept(e, x[e]) /\ Informed(e, x[e]) /\ Unanswered(e, x[e], rows)
  BY TakenUp
<1>2. /\ Kept(e, b) /\ b.phase = x[e].phase /\ b.handler = x[e].handler
      /\ b.request = x[e].request /\ b.result = x[e].result /\ b.status = x[e].status
      /\ b.body_read = x[e].body_read /\ b.task = x[e].task
  BY <1>1 DEF Kept, IsExchange
<1> HIDE DEF b
<1>3. Informed(e, b)
  BY <1>1, <1>2 DEF Informed, Planned, Vetted
<1>4. Unanswered(e, b, rows)
  BY <1>1, <1>2 DEF Unanswered
<1>5. Vetted(b) /\ b.handler \in Handlers
  BY <1>2, <1>3 DEF Informed
<1> QED
  BY <1>2, <1>3, <1>4, <1>5 DEF b

\* GET /ready tries the lock and answers.
LEMMA ReadyIInv ==
  ASSUME IInv, NEW e \in Exchanges, Ready(e)
  PROVE  IInv'
<1> DEFINE b == [x[e] EXCEPT !.touched = TRUE]
           c == IF CanRead THEN Respond(e, b, 200, 1) ELSE Refuse(e, b, 503)
<1>1. /\ x' = [x EXCEPT ![e] = c] /\ UNCHANGED <<rows, now>>
      /\ x[e].phase = "task" /\ ~IsInsert(x[e].task)
  BY DEF Ready, IsInsert
<1>2. /\ Kept(e, b) /\ Vetted(b) /\ b.handler \in Handlers /\ Unanswered(e, b, rows)
      /\ ~IsInsert(b.task)
  BY <1>1, TouchedIsVetted
<1>3. Timed(x[e], now) /\ now \in Nat
  BY TakenUp
<1> HIDE DEF b
<1>4. Sound(e, Respond(e, b, 200, 1), now, rows)
  BY <1>2, <1>3, SuccessIsSound
<1>5. Sound(e, Refuse(e, b, 503), now, rows)
  BY <1>2, <1>3, RefuseIsSound
<1>6. Sound(e, c, now, rows)
  BY <1>4, <1>5
<1> HIDE DEF c
<1> QED
  BY <1>1, <1>6, OneExchange

\* The lock is tried once, by an insert only when its success response is
\* known to fit.
LEMMA TryLockIInv ==
  ASSUME IInv, NEW e \in Exchanges, TryLock(e)
  PROVE  IInv'
<1> DEFINE b == [x[e] EXCEPT !.touched = TRUE]
           d == [b EXCEPT !.phase = "locked"]
           busy == IF b.task.kind = "metrics" THEN 503 ELSE Busy
<1>1. x[e].phase = "task" /\ UNCHANGED <<rows, now>>
  BY DEF TryLock
<1>2. \/ x' = [x EXCEPT ![e] = ExceedsLimit(e, x[e])]
      \/ x' = [x EXCEPT ![e] = Refuse(e, x[e], 400)]
      \/ x' = [x EXCEPT ![e] = d] /\ (IsInsert(b.task) => PreparesFirst(e))
      \/ x' = [x EXCEPT ![e] = Refuse(e, b, busy)]
  BY DEF TryLock
<1>3. /\ Kept(e, x[e]) /\ Timed(x[e], now) /\ now \in Nat /\ x[e].handler \in Handlers
      /\ Vetted(x[e]) /\ Unanswered(e, x[e], rows)
  BY <1>1, TakenUp
<1>4. /\ Kept(e, b) /\ Vetted(b) /\ Informed(e, b) /\ b.handler \in Handlers
      /\ Unanswered(e, b, rows) /\ b.phase = "task"
  BY <1>1, TouchedIsVetted
<1> HIDE DEF b
<1>5. CASE x' = [x EXCEPT ![e] = ExceedsLimit(e, x[e])]
  <2>1. Sound(e, ExceedsLimit(e, x[e]), now, rows)
    BY <1>3, ErrorIsSound DEF ExceedsLimit
  <2> QED
    BY <1>1, <1>5, <2>1, OneExchange
<1>6. CASE x' = [x EXCEPT ![e] = Refuse(e, x[e], 400)]
  <2>1. Sound(e, Refuse(e, x[e], 400), now, rows)
    BY <1>3, RefuseIsSound
  <2> QED
    BY <1>1, <1>6, <2>1, OneExchange
<1>7. CASE x' = [x EXCEPT ![e] = Refuse(e, b, busy)]
  <2>1. busy # 0 /\ busy # 200
    BY DEF Busy
  <2> HIDE DEF busy
  <2>2. Sound(e, Refuse(e, b, busy), now, rows)
    BY <1>3, <1>4, <2>1, RefuseIsSound
  <2> QED
    BY <1>1, <1>7, <2>2, OneExchange
<1>8. CASE x' = [x EXCEPT ![e] = d] /\ (IsInsert(b.task) => PreparesFirst(e))
  <2>1. /\ Kept(e, d) /\ d.phase = "locked" /\ d.task = b.task /\ d.handler = b.handler
        /\ d.request = b.request /\ d.result = b.result /\ d.status = b.status
        /\ d.touched = b.touched /\ d.body_read = b.body_read
    BY <1>4 DEF Kept, IsExchange
  <2> HIDE DEF d
  <2>2. Informed(e, d)
    BY <1>4, <2>1 DEF Informed, Planned, Vetted
  <2>3. IsInsert(d.task) => ResponseHead + 0 <= d.cap
    BY <1>8, <2>1 DEF PreparesFirst, Fits, Kept
  <2>4. Answered(e, d, rows) /\ Timed(d, now)
    BY <1>3, <1>4, <2>1, <2>3 DEF Answered, Unanswered, Timed, Kept
  <2>5. Sound(e, d, now, rows)
    BY <2>1, <2>2, <2>4 DEF Sound, Kept
  <2> QED
    BY <1>1, <1>8, <2>5, OneExchange
<1> QED
  BY <1>2, <1>5, <1>6, <1>7, <1>8

\* An insert is applied, and answered 200, or refused and not applied.
LEMMA FinishInsertIInv ==
  ASSUME IInv, NEW e \in Exchanges, FinishInsert(e)
  PROVE  IInv'
<1>1. x[e].phase = "locked" /\ IsInsert(x[e].task) /\ UNCHANGED now
  BY DEF FinishInsert
<1>2. /\ Kept(e, x[e]) /\ Timed(x[e], now) /\ Informed(e, x[e]) /\ now \in Nat
      /\ x[e].handler \in Handlers /\ Vetted(x[e]) /\ Unanswered(e, x[e], rows)
      /\ Answered(e, x[e], rows)
  BY <1>1, TakenUp
<1>3. CASE ~Applies(e)
  <2>1. x' = [x EXCEPT ![e] = Refuse(e, x[e], 400)] /\ UNCHANGED <<rows, now>>
    BY <1>1, <1>3 DEF FinishInsert
  <2>2. Sound(e, Refuse(e, x[e], 400), now, rows)
    BY <1>2, RefuseIsSound
  <2> QED
    BY <2>1, <2>2, OneExchange
<1>4. CASE Applies(e)
  <2> DEFINE c == Respond(e, x[e], 200, 0)
             s == Append(rows, e)
  <2>1. x' = [x EXCEPT ![e] = c] /\ rows' = s
    BY <1>4 DEF FinishInsert
  <2>2. rows \in Seq(Exchanges)
    BY DEF IInv
  <2>3. /\ s \in Seq(Exchanges) /\ DOMAIN s = 1 .. Len(rows) + 1
        /\ DOMAIN rows = 1 .. Len(rows) /\ Len(rows) \in Nat
        /\ s[Len(rows) + 1] = e /\ \A k \in 1 .. Len(rows) : s[k] = rows[k]
    <3>1. s \in Seq(Exchanges) /\ Len(s) = Len(rows) + 1
      BY <2>2
    <3>2. DOMAIN s = 1 .. Len(s) /\ DOMAIN rows = 1 .. Len(rows) /\ Len(rows) \in Nat
      <4> HIDE DEF s
      <4> QED
        BY <2>2, <3>1, LenProperties
    <3>3. s[Len(rows) + 1] = e /\ \A k \in 1 .. Len(rows) : s[k] = rows[k]
      BY <2>2
    <3> QED
      BY <3>1, <3>2, <3>3
  <2> HIDE DEF s
  <2>4. /\ Applied(e, s)
        /\ \A f \in Exchanges : f # e => (Applied(f, s) <=> Applied(f, rows))
    BY <2>3 DEF Applied
  <2>5. \A j, k \in DOMAIN s : s[j] = s[k] => j = k
    <3>1. \A k \in 1 .. Len(rows) : rows[k] # e
      BY <1>2, <2>3 DEF Unanswered, Applied
    <3>2. \A j, k \in 1 .. Len(rows) : rows[j] = rows[k] => j = k
      BY <2>3 DEF IInv
    <3>3. \A k \in 1 .. Len(rows) + 1 : k \in 1 .. Len(rows) \/ k = Len(rows) + 1
      BY <2>3
    <3> QED
      BY <2>3, <3>1, <3>2, <3>3
  <2>6. Planned(x[e]) /\ Writes(x[e].handler, x[e].request)
    BY <1>1, <1>2 DEF Informed
  <2>7. Fits(e, 0)
    BY <1>1, <1>2 DEF Answered, Fits
  <2>8. Answerable(e, x[e], s, 200, 0)
    BY <1>2, <2>4, <2>6, <2>7 DEF Answerable, Unanswered, Planned
  <2>9. Sound(e, c, now, s)
    BY <1>2, <2>8, RespondIsSound
  <2>10. ASSUME NEW f \in Exchanges, f # e
         PROVE  Sound(f, x[f], now, s)
    <3>1. Sound(f, x[f], now, rows)
      BY DEF IInv
    <3>2. Applied(f, s) <=> Applied(f, rows)
      BY <2>4, <2>10
    <3> QED
      BY <3>1, <3>2 DEF Sound, Answered
  <2> HIDE DEF c
  <2>11. /\ DOMAIN x' = Exchanges /\ x'[e] = c
         /\ \A f \in Exchanges : f # e => x'[f] = x[f]
    BY <2>1 DEF IInv
  <2>12. \A f \in Exchanges : Sound(f, x'[f], now', rows')
    BY <1>1, <2>1, <2>9, <2>10, <2>11
  <2> QED
    BY <1>1, <1>2, <2>1, <2>3, <2>5, <2>11, <2>12 DEF IInv
<1> QED
  BY <1>3, <1>4

\* A query is answered with its result or with the limit it exceeds.
LEMMA FinishQueryIInv ==
  ASSUME IInv, NEW e \in Exchanges, FinishQuery(e)
  PROVE  IInv'
<1> DEFINE exceeded == \E n \in WorkloadNames :
                         x[e].task.workload[n] # 0 /\ ResultUnits > x[e].task.workload[n]
           c == IF exceeded THEN Refuse(e, x[e], 400) ELSE Respond(e, x[e], 200, ResultUnits)
<1>1. /\ x' = [x EXCEPT ![e] = c] /\ UNCHANGED <<rows, now>>
      /\ x[e].phase = "locked" /\ ~IsInsert(x[e].task)
  BY DEF FinishQuery, IsInsert
<1>2. Sound(e, Refuse(e, x[e], 400), now, rows)
  BY <1>1, TakenUp, RefuseIsSound
<1>3. Sound(e, Respond(e, x[e], 200, ResultUnits), now, rows)
  BY <1>1, TakenUp, SuccessIsSound
<1> HIDE DEF exceeded
<1>4. Sound(e, c, now, rows)
  BY <1>2, <1>3
<1> HIDE DEF c
<1> QED
  BY <1>1, <1>4, OneExchange

\* The metrics are answered if they fit.
LEMMA FinishMetricsIInv ==
  ASSUME IInv, NEW e \in Exchanges, FinishMetrics(e)
  PROVE  IInv'
<1> DEFINE c == IF Fits(e, ResultUnits) THEN Respond(e, x[e], 200, ResultUnits)
                ELSE ExceedsLimit(e, x[e])
<1>1. /\ x' = [x EXCEPT ![e] = c] /\ UNCHANGED <<rows, now>>
      /\ x[e].phase = "locked" /\ ~IsInsert(x[e].task)
  BY DEF FinishMetrics, IsInsert
<1>2. Sound(e, ExceedsLimit(e, x[e]), now, rows)
  BY <1>1, TakenUp, ErrorIsSound DEF ExceedsLimit
<1>3. Sound(e, Respond(e, x[e], 200, ResultUnits), now, rows)
  BY <1>1, TakenUp, SuccessIsSound
<1>4. Sound(e, c, now, rows)
  BY <1>2, <1>3
<1> HIDE DEF c
<1> QED
  BY <1>1, <1>4, OneExchange

\* More of the response is written, until all of it is.
LEMMA WriteIInv ==
  ASSUME IInv, NEW e \in Exchanges, Write(e)
  PROVE  IInv'
<1>1. PICK n \in 1 .. x[e].unsent :
        LET b == [x[e] EXCEPT !.unsent = @ - n] IN
        x' = [x EXCEPT ![e] = IF b.unsent = 0 THEN [b EXCEPT !.phase = "done", !.result = "ok"]
                              ELSE Blocking(e, b, "write_timeout", "write_error")]
  BY DEF Write
<1> DEFINE b == [x[e] EXCEPT !.unsent = @ - n]
           d == [b EXCEPT !.phase = "done", !.result = "ok"]
           later == Blocking(e, b, "write_timeout", "write_error")
           c == IF b.unsent = 0 THEN d ELSE later
<1>2. x' = [x EXCEPT ![e] = c] /\ UNCHANGED <<rows, now>> /\ x[e].phase = "write"
  BY <1>1 DEF Write
<1>3. /\ Kept(e, x[e]) /\ Timed(x[e], now) /\ Informed(e, x[e]) /\ now \in Nat
      /\ Answered(e, x[e], rows)
  BY <1>2, TakenUp
<1>4. /\ Kept(e, b) /\ b.phase = "write" /\ b.handler = x[e].handler
      /\ b.request = x[e].request /\ b.result = x[e].result /\ b.status = x[e].status
      /\ b.body_read = x[e].body_read /\ b.touched = x[e].touched /\ b.task = x[e].task
  BY <1>2, <1>3 DEF Kept, IsExchange
<1> HIDE DEF b
<1>5. /\ Kept(e, d) /\ d.phase = "done" /\ d.result = "ok" /\ d.handler = b.handler
      /\ d.request = b.request /\ d.status = b.status /\ d.unsent = b.unsent
      /\ d.body_read = b.body_read /\ d.touched = b.touched /\ d.task = b.task
  BY <1>4 DEF Kept, IsExchange
<1>6. Informed(e, b) /\ Answered(e, b, rows)
  BY <1>2, <1>3, <1>4 DEF Informed, Vetted, Answered
<1>7. ASSUME b.unsent = 0
      PROVE  Sound(e, d, now, rows)
  <2> HIDE DEF d
  <2>1. Timed(d, now)
    BY <1>3, <1>5 DEF Timed, Kept
  <2>2. Informed(e, d)
    BY <1>4, <1>5, <1>6 DEF Informed, Vetted
  <2>3. Answered(e, d, rows)
    BY <1>4, <1>5, <1>6, <1>7 DEF Answered
  <2> QED
    BY <1>5, <2>1, <2>2, <2>3 DEF Sound, Kept
<1>8. Sound(e, later, now, rows)
  <2> DEFINE deadline == x[e].accepted_at + x[e]["write_timeout"]
  <2>1. \/ later = [b EXCEPT !.phase = "done", !.result = "write_error"]
        \/ later = [b EXCEPT !.wake = deadline] /\ now <= deadline
    BY <1>3, BlockingEffect, Zenon
  <2>2. deadline = b.accepted_at + b.write_timeout
    BY <1>4 DEF Kept
  <2> HIDE DEF deadline, later
  <2>3. ASSUME later = [b EXCEPT !.phase = "done", !.result = "write_error"]
        PROVE  Sound(e, later, now, rows)
    <3>1. Sound(e, [b EXCEPT !.phase = "done", !.result = "write_error"], now, rows)
      BY <1>3, <1>4, <1>6, WriteFailureIsSound
    <3> QED
      BY <2>3, <3>1
  <2>4. ASSUME later = [b EXCEPT !.wake = deadline], now <= deadline
        PROVE  Sound(e, later, now, rows)
    <3>1. Sound(e, [b EXCEPT !.wake = deadline], now, rows)
      BY <1>3, <1>4, <1>6, <2>2, <2>4, WaitIsSound
    <3> QED
      BY <2>4, <3>1
  <2> QED
    BY <2>1, <2>3, <2>4
<1> HIDE DEF d, later
<1>9. Sound(e, c, now, rows)
  BY <1>7, <1>8
<1> HIDE DEF c
<1> QED
  BY <1>2, <1>9, OneExchange

\* Time does not pass the deadline of an exchange that waits.
LEMMA TickIInv == IInv /\ Tick => IInv'
<1>1. SUFFICES ASSUME IInv, Tick PROVE IInv'
  OBVIOUS
<1>2. now' = now + 1 /\ UNCHANGED <<x, rows>>
  BY <1>1 DEF Tick
<1>3. ASSUME NEW e \in Exchanges
      PROVE  Sound(e, x[e], now', rows)
  <2>1. Sound(e, x[e], now, rows) /\ now \in Nat
    BY <1>1 DEF IInv
  <2>2. x[e].phase \in {"header", "body", "write"} => now # x[e].wake
    BY <1>1 DEF Tick
  <2>3. x[e].phase \in {"header", "body", "write"} => x[e].wake \in Nat /\ now <= x[e].wake
    BY <2>1 DEF Sound, Timed
  <2>4. Timed(x[e], now')
    BY <1>2, <2>1, <2>2, <2>3 DEF Sound, Timed
  <2> QED
    BY <2>1, <2>4 DEF Sound
<1> QED
  BY <1>1, <1>2, <1>3 DEF IInv

\* Every step of an exchange, its peer, the application or the clock keeps the
\* invariant.
LEMMA NextIInv == IInv /\ [Next]_vars => IInv'
<1> SUFFICES ASSUME IInv, [Next]_vars
             PROVE  IInv'
  OBVIOUS
<1>1. ASSUME NEW e \in Exchanges, Proceed(e)
      PROVE  IInv'
  BY <1>1, BeginIInv, TakeTaskIInv, PingIInv, ReadyIInv, TryLockIInv, FinishInsertIInv,
     FinishQueryIInv, FinishMetricsIInv, TimesOutIInv DEF Proceed
<1>2. ASSUME NEW e \in Exchanges, Peer(e)
      PROVE  IInv'
  BY <1>2, StartIInv, ReadHeaderByteIInv, ReadBodyBytesIInv, PeerClosesIInv, ReadFailsIInv,
     WriteIInv, WriteFailsIInv DEF Peer
<1>3. CASE AppLocks \/ AppUnlocks \/ AppPanics
  BY <1>3 DEF AppLocks, AppUnlocks, AppPanics, IInv
<1>4. CASE Tick
  BY <1>4, TickIInv
<1>5. CASE UNCHANGED vars
  BY <1>5 DEF vars, IInv
<1> QED
  BY <1>1, <1>2, <1>3, <1>4, <1>5 DEF Next

\* The invariant of the exchanges: for any handlers, requests, limits, caps and
\* deadlines, and any number of exchanges over one database, what each one
\* waits for, knows and has answered agrees with the rows and the clock.
THEOREM ExchangeInvariance == Spec => []IInv
  BY InitIInv, NextIInv, PTL DEF Spec

\* No read and no write of an exchange waits beyond the deadline counted from
\* the moment the connection was accepted, however the peer spaces its bytes.
THEOREM ExchangeDeadlines == Spec => []DeadlinesAreAbsolute
<1>1. IInv => DeadlinesAreAbsolute
  BY DEF IInv, Sound, Timed, DeadlinesAreAbsolute
<1> QED
  BY <1>1, ExchangeInvariance, PTL

\* An insert is answered 200 exactly when its rows are in the database, and
\* an exchange that fails otherwise has left nothing behind.
THEOREM ExchangeAnswers == Spec => []AnswersAreTruthful
<1>1. IInv => AnswersAreTruthful
  <2> SUFFICES ASSUME IInv, NEW e \in Exchanges
               PROVE  LET applied == \E k \in DOMAIN rows : rows[k] = e
                          inserting == x[e].task # None /\ IsInsert(x[e].task)
                      IN  /\ x[e].phase \in {"write", "done"} /\ x[e].status = 200 /\ inserting =>
                               applied
                          /\ applied => x[e].status = 200 /\ x[e].result \in {"none", "ok", "write_error"}
                          /\ x[e].result = "ok" => x[e].status # 0 /\ x[e].unsent = 0
                          /\ x[e].result = "limit_error" => x[e].status = 0
    BY DEF AnswersAreTruthful
  <2>1. Answered(e, x[e], rows)
    BY TakenUp
  <2> QED
    BY <2>1 DEF Answered, Applied
<1> QED
  BY <1>1, ExchangeInvariance, PTL

\* Whatever a request holds and whichever route it takes, no byte of its body
\* is read and the database is not touched before its credentials are found
\* good, it is refused alike by read-only and read-write handlers if they are
\* not, and only a POST by a principal who may write, without readonly=1,
\* changes the database, once.
THEOREM ExchangeAccess == Spec => []AccessIsEnforced
<1>1. IInv => AccessIsEnforced
  <2> SUFFICES ASSUME IInv
               PROVE  AccessIsEnforced
    OBVIOUS
  <2>1. ASSUME NEW e \in Exchanges, Known(e)
        PROVE  /\ x[e].body_read > 0 \/ x[e].touched => Allowed(e)
               /\ ~Allowed(e) =>
                    \A access \in {"ro", "rw"} :
                      ParseHeaders([x[e].handler EXCEPT !.access = access], x[e].request)
                        = ParseHeaders(x[e].handler, x[e].request)
    <3>1. Vetted(x[e])
      BY TakenUp
    <3>2. /\ x[e].request \in HttpRequests /\ x[e].handler \in Handlers
          /\ ValidConfiguration(x[e].handler)
      BY <2>1, <3>1 DEF Vetted, Known
    <3>3. x[e].body_read > 0 \/ x[e].touched => Allowed(e)
      BY <3>1 DEF Vetted, Allowed, AllowedBy
    <3>4. ASSUME ~Allowed(e), NEW access
          PROVE  ParseHeaders([x[e].handler EXCEPT !.access = access], x[e].request)
                   = ParseHeaders(x[e].handler, x[e].request)
      BY <3>2, <3>4, RefusedAlike DEF Allowed
    <3> QED
      BY <3>3, <3>4
  <2>2. ASSUME NEW k \in DOMAIN rows
        PROVE  MayWrite(rows[k])
    <3>1. rows[k] \in Exchanges
      <4>1. rows \in Seq(Exchanges)
        BY DEF IInv
      <4>2. DOMAIN rows = 1 .. Len(rows)
        BY <4>1, LenProperties
      <4> QED
        BY <4>1, <4>2
    <3>2. Answered(rows[k], x[rows[k]], rows)
      BY <3>1, TakenUp
    <3> QED
      BY <2>2, <3>2 DEF Answered, Applied, Writes, MayWrite
  <2> QED
    BY <2>1, <2>2 DEF AccessIsEnforced, IInv
<1> QED
  BY <1>1, ExchangeInvariance, PTL

=============================================================================
