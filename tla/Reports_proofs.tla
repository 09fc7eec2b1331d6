---------------------------- MODULE Reports_proofs ---------------------------
(***************************************************************************)
(* What the reports of smallfile show: the results of all threads together *)
(* (Results) and the response times of an interval (RspStats), for the     *)
(* inputs of any instance of Algorithms.  Sums and totals are recursive    *)
(* functions of an index; a fact about them is proved by induction over it.*)
(***************************************************************************)
EXTENDS Algorithms_proofs

-----------------------------------------------------------------------------
\* Sums.

LEMMA SumUnique ==
  ASSUME NEW f \in Seq(Nat), NEW c, c[0] = 0,
         \A n \in 1 .. Len(f) : c[n] = c[n - 1] + f[n]
  PROVE  \A n \in 0 .. Len(f) : c[n] = SumOf(f)[n]
<1> DEFINE N == Len(f)
           sum == SumOf(f)
           S == {n \in Nat : n <= N => c[n] = sum[n]}
<1>1. /\ N \in Nat /\ sum[0] = 0
      /\ \A n \in 1 .. N : sum[n] = sum[n - 1] + f[n]
      /\ \A n \in 1 .. N : c[n] = c[n - 1] + f[n]
  BY SumDef
<1> HIDE DEF N, sum
<1>2. 0 \in S
  BY <1>1
<1>3. ASSUME NEW n \in Nat, n \in S PROVE n + 1 \in S
  <2>1. ASSUME n + 1 <= N PROVE c[n + 1] = sum[n + 1]
    <3>1. n + 1 \in 1 .. N /\ (n + 1) - 1 = n /\ n <= N
      BY <1>1, <1>3, <2>1
    <3>2. sum[n + 1] = sum[(n + 1) - 1] + f[n + 1] /\ c[n + 1] = c[(n + 1) - 1] + f[n + 1]
      BY <1>1, <3>1
    <3>3. c[n] = sum[n]
      BY <1>3, <3>1
    <3> QED
      BY <3>1, <3>2, <3>3
  <2> QED
    BY <2>1
<1> HIDE DEF S
<1>4. \A n \in Nat : n \in S
  BY <1>2, <1>3, NatSetInduction
<1> QED
  BY <1>1, <1>4 DEF S, N, sum

LEMMA SumZero ==
  ASSUME NEW f \in Seq(Nat), \A n \in 1 .. Len(f) : f[n] = 0
  PROVE  SumOf(f)[Len(f)] = 0
<1> DEFINE c == [n \in 0 .. Len(f) |-> 0]
<1>1. Len(f) \in Nat
  OBVIOUS
<1>2. c[0] = 0 /\ c[Len(f)] = 0 /\ Len(f) \in 0 .. Len(f)
  BY <1>1
<1>3. \A n \in 1 .. Len(f) : c[n] = c[n - 1] + f[n]
  <2>1. \A n \in 1 .. Len(f) : n \in 0 .. Len(f) /\ n - 1 \in 0 .. Len(f)
    BY <1>1
  <2> QED
    BY <2>1
<1> HIDE DEF c
<1> QED
  BY <1>2, <1>3, SumUnique

\* One number more.
LEMMA SumChanges ==
  ASSUME NEW f \in Seq(Nat), NEW g \in Seq(Nat), Len(f) = Len(g),
         NEW k \in 1 .. Len(f), NEW x \in Nat,
         \A n \in 1 .. Len(f) : g[n] = IF n = k THEN f[n] + x ELSE f[n]
  PROVE  SumOf(g)[Len(g)] = SumOf(f)[Len(f)] + x
<1> DEFINE N == Len(f)
           sum == SumOf(f)
           c == [n \in 0 .. N |-> sum[n] + (IF n >= k THEN x ELSE 0)]
<1>1. /\ N \in Nat /\ k \in 1 .. N /\ Len(g) = N /\ sum[0] = 0
      /\ \A n \in 0 .. N : sum[n] \in Nat
      /\ \A n \in 1 .. N : sum[n] = sum[n - 1] + f[n]
      /\ \A n \in 1 .. N : f[n] \in Nat /\ g[n] = IF n = k THEN f[n] + x ELSE f[n]
  BY SumDef
<1> HIDE DEF N, sum
<1>2. c[0] = 0
  BY <1>1
<1>3. ASSUME NEW n \in 1 .. N PROVE c[n] = c[n - 1] + g[n]
  <2>1. n \in 0 .. N /\ n - 1 \in 0 .. N /\ n \in Int
    BY <1>1
  <2>2. sum[n] = sum[n - 1] + f[n] /\ sum[n - 1] \in Nat /\ f[n] \in Nat
    BY <1>1, <2>1
  <2>3. /\ c[n] = sum[n] + (IF n >= k THEN x ELSE 0)
        /\ c[n - 1] = sum[n - 1] + (IF n - 1 >= k THEN x ELSE 0)
        /\ g[n] = IF n = k THEN f[n] + x ELSE f[n]
    BY <1>1, <2>1
  <2> DEFINE c1 == c[n]
             c0 == c[n - 1]
             s1 == sum[n]
             s0 == sum[n - 1]
             fn == f[n]
             gn == g[n]
  <2>4. /\ s1 = s0 + fn /\ s0 \in Nat /\ fn \in Nat
        /\ c1 = s1 + (IF n >= k THEN x ELSE 0) /\ c0 = s0 + (IF n - 1 >= k THEN x ELSE 0)
        /\ gn = IF n = k THEN fn + x ELSE fn
        /\ n \in Int /\ k \in Int
    BY <1>1, <2>1, <2>2, <2>3
  <2> HIDE DEF c1, c0, s1, s0, fn, gn
  <2>5. c1 = c0 + gn
    BY <2>4
  <2> QED
    BY <2>5 DEF c1, c0, gn
<1>4. c[N] = sum[N] + x /\ N \in 0 .. N
  BY <1>1
<1> HIDE DEF c
<1>5. c[N] = SumOf(g)[N]
  BY <1>1, <1>2, <1>3, <1>4, SumUnique
<1> QED
  BY <1>1, <1>4, <1>5 DEF sum, N

\* The numbers v, each of a host, added up together in c and host by host in t.
ByHost(N, H, on, v, c, t) ==
  /\ N \in Nat /\ H \in Nat /\ on \in [1 .. N -> 1 .. H] /\ v \in [1 .. N -> Nat]
  /\ c[0] = 0 /\ \A n \in 1 .. N : c[n] = c[n - 1] + v[n]
  /\ \A h \in 1 .. H :
       /\ t[h][0] = 0 /\ \A n \in 0 .. N : t[h][n] \in Nat
       /\ \A n \in 1 .. N :
            t[h][n] = IF on[n] = h THEN t[h][n - 1] + v[n] ELSE t[h][n - 1]

LEMMA SumByHost ==
  ASSUME NEW N, NEW H, NEW on, NEW v, NEW c, NEW t, ByHost(N, H, on, v, c, t),
         NEW r, r = [h \in 1 .. H |-> t[h][N]]
  PROVE  c[N] = SumOf(r)[H]
<1>0. /\ N \in Nat /\ H \in Nat /\ on \in [1 .. N -> 1 .. H] /\ v \in [1 .. N -> Nat]
      /\ c[0] = 0 /\ \A n \in 1 .. N : c[n] = c[n - 1] + v[n]
      /\ \A h \in 1 .. H :
           /\ t[h][0] = 0 /\ \A n \in 0 .. N : t[h][n] \in Nat
           /\ \A n \in 1 .. N :
                t[h][n] = IF on[n] = h THEN t[h][n - 1] + v[n] ELSE t[h][n - 1]
  BY DEF ByHost
<1> DEFINE row(n) == [h \in 1 .. H |-> t[h][n]]
           S == {n \in Nat : n <= N => c[n] = SumOf(row(n))[H]}
<1>1. ASSUME NEW n \in 0 .. N
      PROVE  /\ row(n) \in Seq(Nat) /\ Len(row(n)) = H
             /\ \A h \in 1 .. H : row(n)[h] = t[h][n]
  <2>1. \A h \in 1 .. H : t[h][n] \in Nat
    BY <1>0, <1>1
  <2> QED
    BY <1>0, <2>1
<1> HIDE DEF row
<1>2. 0 \in S
  <2>1. 0 \in 0 .. N /\ \A h \in 1 .. H : t[h][0] = 0
    BY <1>0
  <2>2. SumOf(row(0))[H] = 0
    <3> DEFINE z == row(0)
    <3>1. z \in Seq(Nat) /\ Len(z) = H /\ \A h \in 1 .. H : z[h] = 0
      BY <1>1, <2>1
    <3> HIDE DEF z
    <3>2. SumOf(z)[H] = 0
      BY <1>0, <3>1, SumZero
    <3> QED
      BY <3>2 DEF z
  <2> QED
    BY <1>0, <2>2
<1>3. ASSUME NEW n \in Nat, n \in S PROVE n + 1 \in S
  <2>1. ASSUME n + 1 <= N PROVE c[n + 1] = SumOf(row(n + 1))[H]
    <3>1. n + 1 \in 1 .. N /\ (n + 1) - 1 = n /\ n \in 0 .. N /\ n + 1 \in 0 .. N /\ n <= N
      BY <1>0, <1>3, <2>1
    <3> DEFINE k == on[n + 1]
               x == v[n + 1]
    <3>2. k \in 1 .. H /\ x \in Nat /\ c[n + 1] = c[n] + x
      BY <1>0, <3>1
    <3>3. ASSUME NEW h \in 1 .. H
          PROVE  row(n + 1)[h] = IF h = k THEN row(n)[h] + x ELSE row(n)[h]
      <4>1. row(n + 1)[h] = t[h][n + 1] /\ row(n)[h] = t[h][n]
        BY <1>1, <3>1
      <4>2. t[h][n + 1] = IF on[n + 1] = h THEN t[h][(n + 1) - 1] + v[n + 1]
                                          ELSE t[h][(n + 1) - 1]
        BY <1>0, <3>1
      <4> QED
        BY <3>1, <4>1, <4>2
    <3> HIDE DEF k, x
    <3>4. /\ row(n) \in Seq(Nat) /\ Len(row(n)) = H
          /\ row(n + 1) \in Seq(Nat) /\ Len(row(n + 1)) = H
      BY <1>0, <1>1, <3>1
    <3>5. SumOf(row(n + 1))[H] = SumOf(row(n))[H] + x
      <4> DEFINE y == row(n)
                 z == row(n + 1)
      <4>1. /\ y \in Seq(Nat) /\ Len(y) = H /\ z \in Seq(Nat) /\ Len(z) = H
            /\ \A h \in 1 .. H : z[h] = IF h = k THEN y[h] + x ELSE y[h]
        BY <3>3, <3>4
      <4> HIDE DEF y, z
      <4>2. SumOf(z)[H] = SumOf(y)[H] + x
        <5>1. /\ k \in 1 .. Len(y) /\ x \in Nat /\ Len(y) = Len(z)
              /\ \A h \in 1 .. Len(y) : z[h] = IF h = k THEN y[h] + x ELSE y[h]
          BY <3>2, <4>1
        <5>2. SumOf(z)[Len(z)] = SumOf(y)[Len(y)] + x
          BY <4>1, <5>1, SumChanges
        <5> QED
          BY <4>1, <5>2
      <4> QED
        BY <4>2 DEF y, z
    <3>6. c[n] = SumOf(row(n))[H]
      BY <1>3, <3>1
    <3> QED
      BY <3>2, <3>5, <3>6
  <2> QED
    BY <2>1
<1> HIDE DEF S
<1>4. N \in S
  BY <1>0, <1>2, <1>3, NatSetInduction
<1> QED
  BY <1>0, <1>4 DEF S, row

\* Counted forwards or backwards.
LEMMA SumReverse ==
  ASSUME NEW f \in Seq(Nat), NEW g \in Seq(Nat), Len(g) = Len(f),
         \A n \in 1 .. Len(f) : g[n] = f[(Len(f) - n) + 1]
  PROVE  SumOf(g)[Len(g)] = SumOf(f)[Len(f)]
<1> DEFINE N == Len(f)
           sum == SumOf(f)
           c == [n \in 0 .. N |-> sum[N] - sum[N - n]]
<1>1. /\ N \in Nat /\ Len(g) = N /\ sum[0] = 0
      /\ \A n \in 0 .. N : sum[n] \in Nat
      /\ \A n \in 1 .. N : sum[n] = sum[n - 1] + f[n]
      /\ \A n \in 1 .. N : f[n] \in Nat /\ g[n] = f[(N - n) + 1]
  <2>1. /\ sum[0] = 0 /\ \A n \in 0 .. N : sum[n] \in Nat
        /\ \A n \in 1 .. N : sum[n] = sum[n - 1] + f[n]
    BY SumDef
  <2>2. /\ N \in Nat /\ Len(g) = N
        /\ \A n \in 1 .. N : f[n] \in Nat /\ g[n] = f[(N - n) + 1]
    OBVIOUS
  <2> QED
    BY <2>1, <2>2
<1> HIDE DEF N, sum
<1>2. c[0] = 0 /\ c[N] = sum[N]
  <2>1. 0 \in 0 .. N /\ N \in 0 .. N /\ N - 0 = N /\ N - N = 0 /\ sum[N] \in Nat
    BY <1>1
  <2>2. c[0] = sum[N] - sum[N] /\ c[N] = sum[N] - sum[0]
    BY <2>1
  <2> QED
    BY <1>1, <2>1, <2>2
<1>3. ASSUME NEW n \in 1 .. N PROVE c[n] = c[n - 1] + g[n]
  <2> DEFINE m == (N - n) + 1
  <2>1. n \in 0 .. N /\ n - 1 \in 0 .. N /\ m \in 1 .. N /\ N - (n - 1) = m /\ N - n = m - 1
        /\ m - 1 \in 0 .. N /\ m \in 0 .. N /\ N \in 0 .. N
    BY <1>1
  <2>2. c[n] = sum[N] - sum[N - n] /\ c[n - 1] = sum[N] - sum[N - (n - 1)]
    BY <2>1
  <2>3. sum[m] = sum[m - 1] + f[m] /\ g[n] = f[m]
    BY <1>1, <2>1
  <2> HIDE DEF m
  <2>4. sum[N] \in Nat /\ sum[m] \in Nat /\ sum[m - 1] \in Nat /\ f[m] \in Nat
    BY <1>1, <2>1
  <2>5. c[n] = sum[N] - sum[m - 1] /\ c[n - 1] = sum[N] - sum[m]
    BY <2>1, <2>2
  <2> QED
    BY <2>3, <2>4, <2>5
<1> HIDE DEF c
<1>4. c[N] = SumOf(g)[N]
  <2>1. N \in 0 .. N
    BY <1>1
  <2> QED
    BY <1>1, <1>2, <1>3, <2>1, SumUnique
<1> QED
  BY <1>1, <1>2, <1>4 DEF sum, N

-----------------------------------------------------------------------------
\* Results.

Stats == [status : Nat, elapsed : Nat, files : Nat, records : Nat,
          files_per_sec : Nat, IOPS : Nat]

LEMMA InvokeStats ==
  ASSUME NEW H, NEW T, NEW invk \in InvokesOf(H, T)
  PROVE  LET c == GetFromInvoke(invk)
         IN /\ c \in Stats /\ c.status = invk.status
            /\ c.elapsed = 0 => c.files_per_sec = 0 /\ c.IOPS = 0
            /\ invk.filenum_final # None => c.files = invk.filenum_final
<1> DEFINE e == invk.elapsed_time
           f == invk.filenum_final
           q == invk.rq_final
           rate(n) == IF e > 0 THEN (n * RateUnit) \div e ELSE 0
           c == GetFromInvoke(invk)
<1>1. /\ e \in Nat \cup {None} /\ f \in Nat \cup {None} /\ q \in Nat \cup {None}
      /\ e # None => f # None /\ q # None
      /\ invk.status \in Nat
  BY DEF InvokesOf
<1> HIDE DEF e, f, q
<1>2. ASSUME NEW n \in Nat \cup {None}, e > 0 => n \in Nat PROVE rate(n) \in Nat
  <2>1. CASE e > 0
    <3> DEFINE m == n * RateUnit
    <3>1. m \in Nat /\ e \in Nat \ {0}
      BY <1>1, <1>2, <2>1, ResultsAssumption DEF None
    <3> HIDE DEF m
    <3>2. m \div e \in Nat
      BY <3>1, DivModType
    <3> QED
      BY <2>1, <3>2 DEF m
  <2>2. CASE ~(e > 0)
    BY <2>2
  <2> QED
    BY <2>1, <2>2
<1>3. rate(f) \in Nat /\ rate(q) \in Nat
  <2>1. e > 0 => f \in Nat /\ q \in Nat
    BY <1>1 DEF None
  <2> HIDE DEF rate
  <2> QED
    BY <1>1, <1>2, <2>1
<1>4. c = [status |-> invk.status, elapsed |-> OrElse(e, NeverElapsed),
           files |-> OrElse(f, 0), records |-> OrElse(q, 0),
           files_per_sec |-> rate(f), IOPS |-> rate(q)]
  BY DEF GetFromInvoke, e, f, q
<1>5. NeverElapsed \in Nat /\ NeverElapsed # 0
  BY SMT DEF NeverElapsed
<1>6. /\ OrElse(e, NeverElapsed) \in Nat /\ OrElse(f, 0) \in Nat /\ OrElse(q, 0) \in Nat
      /\ f # None => OrElse(f, 0) = f
      /\ OrElse(e, NeverElapsed) = 0 => ~(e > 0)
  BY <1>1, <1>5 DEF OrElse, None
<1>7. ~(e > 0) => rate(f) = 0 /\ rate(q) = 0
  OBVIOUS
<1> HIDE DEF rate, c
<1> QED
  BY <1>1, <1>3, <1>4, <1>6, <1>7 DEF Stats, c, f

LEMMA AddStats ==
  ASSUME NEW t \in Stats, NEW c \in Stats,
         c.elapsed = 0 => c.files_per_sec = 0 /\ c.IOPS = 0
  PROVE  LET sum == AddTo(t, c)
         IN /\ sum \in Stats
            /\ sum.status = IF t.status = OK THEN c.status ELSE t.status
            /\ sum.elapsed = IF c.elapsed > t.elapsed THEN c.elapsed ELSE t.elapsed
            /\ sum.files = t.files + c.files
            /\ sum.records = t.records + c.records
            /\ sum.files_per_sec = t.files_per_sec + c.files_per_sec
            /\ sum.IOPS = t.IOPS + c.IOPS
BY DEF AddTo, Stats

LEMMA TotalDef ==
  ASSUME NEW H, NEW T, NEW s \in Seq(InvokesOf(H, T)), NEW S
  PROVE  LET t == Total(s, S)
         IN /\ t[0] = NoStats /\ \A n \in 0 .. Len(s) : t[n] \in Stats
            /\ \A n \in 1 .. Len(s) :
                 /\ n \in S => t[n] = AddTo(t[n - 1], GetFromInvoke(s[n]))
                 /\ n \notin S => t[n] = t[n - 1]
<1> DEFINE N == Len(s)
           More(n, x) == IF n \in S THEN AddTo(x, GetFromInvoke(s[n])) ELSE x
           D == [n \in Nat |-> [x \in Stats |-> IF n < N THEN More(n + 1, x) ELSE x]]
           Is(g) == g = [n \in 0 .. N |-> IF n = 0 THEN NoStats
                                          ELSE IF n \in S
                                          THEN AddTo(g[n - 1], GetFromInvoke(s[n]))
                                          ELSE g[n - 1]]
           t == Total(s, S)
<1>1. N \in Nat /\ NoStats \in Stats
  BY DEF NoStats, Stats, OK
<1>2. ASSUME NEW n \in 1 .. N, NEW x \in Stats PROVE More(n, x) \in Stats
  <2>1. s[n] \in InvokesOf(H, T)
    BY <1>2
  <2> QED
    BY <2>1, InvokeStats, AddStats
<1> HIDE DEF N, More
<1>3. PICK h : Recursion(h, Stats, NoStats, D)
  <2>1. D \in [Nat -> [Stats -> Stats]]
    <3>1. ASSUME NEW n \in Nat, NEW x \in Stats
          PROVE  (IF n < N THEN More(n + 1, x) ELSE x) \in Stats
      <4>1. n < N => n + 1 \in 1 .. N
        BY <1>1, <3>1
      <4> QED
        BY <1>2, <3>1, <4>1
    <3> QED
      BY <3>1
  <2> HIDE DEF D
  <2> QED
    BY <1>1, <2>1, NatRecursion
<1>4. /\ h \in [Nat -> Stats] /\ h[0] = NoStats
      /\ \A n \in Nat : n < N => h[n + 1] = More(n + 1, h[n])
  BY <1>3 DEF Recursion
<1> DEFINE g == [n \in 0 .. N |-> h[n]]
<1>5. Is(g)
  <2>1. ASSUME NEW n \in 0 .. N, n # 0 PROVE h[n] = More(n, h[n - 1])
    <3>1. n - 1 \in Nat /\ n - 1 < N /\ (n - 1) + 1 = n
      BY <1>1, <2>1
    <3>2. h[(n - 1) + 1] = More((n - 1) + 1, h[n - 1])
      BY <1>4, <3>1
    <3> QED
      BY <3>1, <3>2
  <2>2. ASSUME NEW n \in 0 .. N
        PROVE  g[n] = IF n = 0 THEN NoStats
                      ELSE IF n \in S THEN AddTo(g[n - 1], GetFromInvoke(s[n]))
                      ELSE g[n - 1]
    <3>1. CASE n = 0
      BY <1>4, <3>1
    <3>2. CASE n # 0
      <4>1. n - 1 \in 0 .. N
        BY <1>1, <3>2
      <4>2. g[n] = h[n] /\ g[n - 1] = h[n - 1]
        BY <4>1
      <4>3. h[n] = More(n, h[n - 1])
        BY <2>1, <3>2
      <4> HIDE DEF g
      <4> QED
        BY <3>2, <4>2, <4>3 DEF More
    <3> QED
      BY <3>1, <3>2
  <2> QED
    BY <2>2
<1> HIDE DEF g
<1>6. Is(t)
  <2>1. t = CHOOSE f : Is(f)
    BY DEF Total, N
  <2> HIDE DEF Is, t
  <2> QED
    BY <1>5, <2>1
<1> HIDE DEF t
<1>7. /\ t[0] = NoStats
      /\ \A n \in 1 .. N : t[n] = More(n, t[n - 1])
  <2>1. 0 \in 0 .. N /\ \A n \in 1 .. N : n \in 0 .. N /\ n # 0
    BY <1>1
  <2> QED
    BY <1>6, <2>1 DEF More
<1>8. \A n \in 0 .. N : t[n] \in Stats
  <2> DEFINE Z == {n \in Nat : n <= N => t[n] \in Stats}
  <2>1. 0 \in Z
    BY <1>1, <1>7
  <2>2. ASSUME NEW n \in Nat, n \in Z PROVE n + 1 \in Z
    <3>1. ASSUME n + 1 <= N PROVE t[n + 1] \in Stats
      <4>1. n + 1 \in 1 .. N /\ (n + 1) - 1 = n /\ n <= N
        BY <1>1, <2>2, <3>1
      <4>2. t[n + 1] = More(n + 1, t[n]) /\ t[n] \in Stats
        BY <1>7, <2>2, <4>1
      <4> QED
        BY <1>2, <4>1, <4>2
    <3> QED
      BY <3>1
  <2> HIDE DEF Z
  <2>3. \A n \in Nat : n \in Z
    BY <2>1, <2>2, NatSetInduction
  <2> QED
    BY <1>1, <2>3 DEF Z
<1> QED
  BY <1>7, <1>8 DEF t, N, More

SumFields == {"files", "records", "files_per_sec", "IOPS"}

\* The statistics of some invokes, field by field.
LEMMA TotalRule ==
  ASSUME NEW H, NEW T, NEW s \in Seq(InvokesOf(H, T)), NEW S
  PROVE  LET t == Total(s, S)
             c(n) == GetFromInvoke(s[n])
         IN /\ \A n \in 0 .. Len(s) :
                 /\ t[n] \in Stats /\ t[n].elapsed \in Nat
                 /\ \A f \in SumFields : t[n][f] \in Nat
            /\ t[0].status = OK /\ t[0].elapsed = 0 /\ \A f \in SumFields : t[0][f] = 0
            /\ \A n \in 1 .. Len(s) :
                 /\ c(n).status = s[n].status /\ c(n).elapsed \in Nat
                 /\ \A f \in SumFields : c(n)[f] \in Nat
                 /\ n \notin S => t[n] = t[n - 1]
                 /\ n \in S =>
                      /\ t[n].status = IF t[n - 1].status = OK THEN c(n).status
                                                               ELSE t[n - 1].status
                      /\ t[n].elapsed = IF c(n).elapsed > t[n - 1].elapsed
                                        THEN c(n).elapsed ELSE t[n - 1].elapsed
                      /\ \A f \in SumFields : t[n][f] = t[n - 1][f] + c(n)[f]
<1> DEFINE t == Total(s, S)
           c(n) == GetFromInvoke(s[n])
<1>1. ASSUME NEW n \in 1 .. Len(s)
      PROVE  /\ c(n) \in Stats /\ c(n).status = s[n].status
             /\ c(n).elapsed = 0 => c(n).files_per_sec = 0 /\ c(n).IOPS = 0
  <2>1. s[n] \in InvokesOf(H, T)
    BY <1>1
  <2> QED
    BY <2>1, InvokeStats
<1>2. /\ t[0] = NoStats /\ \A n \in 0 .. Len(s) : t[n] \in Stats
      /\ \A n \in 1 .. Len(s) :
           /\ n \in S => t[n] = AddTo(t[n - 1], c(n))
           /\ n \notin S => t[n] = t[n - 1]
  BY TotalDef
<1> HIDE DEF t, c
<1>3. ASSUME NEW x \in Stats PROVE x.elapsed \in Nat /\ \A f \in SumFields : x[f] \in Nat
  BY DEF Stats, SumFields
<1>4. /\ NoStats.status = OK /\ NoStats.elapsed = 0 /\ \A f \in SumFields : NoStats[f] = 0
  BY DEF NoStats, SumFields
<1>5. ASSUME NEW n \in 1 .. Len(s), n \in S
      PROVE  /\ t[n].status = IF t[n - 1].status = OK THEN c(n).status
                                                      ELSE t[n - 1].status
             /\ t[n].elapsed = IF c(n).elapsed > t[n - 1].elapsed
                               THEN c(n).elapsed ELSE t[n - 1].elapsed
             /\ \A f \in SumFields : t[n][f] = t[n - 1][f] + c(n)[f]
  <2>1. n - 1 \in 0 .. Len(s)
    OBVIOUS
  <2>2. t[n - 1] \in Stats /\ t[n] = AddTo(t[n - 1], c(n))
    BY <1>2, <1>5, <2>1
  <2> QED
    BY <1>1, <2>2, AddStats DEF SumFields
<1>6. \A n \in 0 .. Len(s) :
        t[n] \in Stats /\ t[n].elapsed \in Nat /\ \A f \in SumFields : t[n][f] \in Nat
  BY <1>2, <1>3
<1>7. \A n \in 1 .. Len(s) :
        /\ c(n).status = s[n].status /\ c(n).elapsed \in Nat
        /\ \A f \in SumFields : c(n)[f] \in Nat
  BY <1>1, <1>3
<1> QED
  BY <1>2, <1>4, <1>5, <1>6, <1>7 DEF t, c

LEMMA ClusterSums ==
  ASSUME NEW H, NEW T, NEW s \in Seq(InvokesOf(H, T)), NEW f \in SumFields
  PROVE  Cluster(s)[f] = SumOf([n \in 1 .. Len(s) |-> GetFromInvoke(s[n])[f]])[Len(s)]
<1> DEFINE N == Len(s)
           D == DOMAIN s
           t == Total(s, D)
           v == [n \in 1 .. N |-> GetFromInvoke(s[n])[f]]
           u == [n \in 0 .. N |-> t[n][f]]
<1>1. N \in Nat /\ D = 1 .. N /\ Cluster(s) = t[N]
  BY DEF Cluster
<1> HIDE DEF D
<1>2. /\ \A n \in 0 .. N : t[n][f] \in Nat
      /\ t[0][f] = 0
      /\ \A n \in 1 .. N : n \in D => t[n][f] = t[n - 1][f] + GetFromInvoke(s[n])[f]
      /\ \A n \in 1 .. N : GetFromInvoke(s[n])[f] \in Nat
  BY TotalRule
<1> HIDE DEF N, t
<1>3. N \in 0 .. N /\ 0 \in 0 .. N /\ \A n \in 1 .. N : n \in 0 .. N /\ n - 1 \in 0 .. N
  BY <1>1
<1>4. v \in Seq(Nat) /\ Len(v) = N
  BY <1>1, <1>2
<1>5. u[0] = 0 /\ u[N] = t[N][f] /\ \A n \in 1 .. N : u[n] = u[n - 1] + v[n]
  <2>1. ASSUME NEW n \in 1 .. N PROVE u[n] = u[n - 1] + v[n]
    <3>1. u[n] = t[n][f] /\ u[n - 1] = t[n - 1][f] /\ v[n] = GetFromInvoke(s[n])[f]
      BY <1>3
    <3>2. t[n][f] = t[n - 1][f] + GetFromInvoke(s[n])[f]
      BY <1>1, <1>2
    <3> QED
      BY <3>1, <3>2
  <2> QED
    BY <1>2, <1>3, <2>1
<1> HIDE DEF u, v
<1>6. \A n \in 0 .. N : u[n] = SumOf(v)[n]
  BY <1>4, <1>5, SumUnique
<1>7. t[N][f] = SumOf(v)[N]
  BY <1>3, <1>5, <1>6
<1> QED
  BY <1>1, <1>7 DEF v, N

LEMMA HostSums ==
  ASSUME NEW H \in Nat, NEW T, NEW s \in Seq(InvokesOf(H, T)), NEW f \in SumFields
  PROVE  Cluster(s)[f] = SumOf([h \in 1 .. H |-> HostStats(s, h)[f]])[H]
<1> DEFINE N == Len(s)
           D == DOMAIN s
           t == Total(s, D)
           Of(h) == {i \in DOMAIN s : s[i].onhost = h}
           u(h) == Total(s, Of(h))
           on == [n \in 1 .. N |-> s[n].onhost]
           v == [n \in 1 .. N |-> GetFromInvoke(s[n])[f]]
           a == [n \in 0 .. N |-> t[n][f]]
           b == [h \in 1 .. H |-> [n \in 0 .. N |-> u(h)[n][f]]]
<1>1. /\ N \in Nat /\ D = 1 .. N /\ Cluster(s) = t[N]
      /\ \A h \in 1 .. H : HostStats(s, h) = u(h)[N]
  BY DEF Cluster, HostStats
<1>2. on \in [1 .. N -> 1 .. H] /\ \A h \in 1 .. H, n \in 1 .. N : n \in Of(h) <=> on[n] = h
  <2>1. \A n \in 1 .. N : s[n] \in InvokesOf(H, T)
    OBVIOUS
  <2>2. \A n \in 1 .. N : s[n].onhost \in 1 .. H
    BY <2>1 DEF InvokesOf
  <2> QED
    BY <1>1, <2>2
<1> HIDE DEF D
<1>3. /\ t[0][f] = 0
      /\ \A n \in 1 .. N : n \in D => t[n][f] = t[n - 1][f] + GetFromInvoke(s[n])[f]
      /\ \A n \in 1 .. N : GetFromInvoke(s[n])[f] \in Nat
  <2>1. /\ \A n \in 0 .. N : t[n][f] \in Nat
        /\ t[0][f] = 0
        /\ \A n \in 1 .. N : n \in D => t[n][f] = t[n - 1][f] + GetFromInvoke(s[n])[f]
        /\ \A n \in 1 .. N : GetFromInvoke(s[n])[f] \in Nat
    <3> HIDE DEF u, on, v, a, b, Of
    <3> QED
      BY TotalRule
  <2> QED
    BY <2>1
<1>4. ASSUME NEW h \in 1 .. H
      PROVE  /\ u(h)[0][f] = 0 /\ \A n \in 0 .. N : u(h)[n][f] \in Nat
             /\ \A n \in 1 .. N :
                  u(h)[n][f] = IF on[n] = h THEN u(h)[n - 1][f] + GetFromInvoke(s[n])[f]
                                            ELSE u(h)[n - 1][f]
  <2> DEFINE O == Of(h)
             w == Total(s, O)
  <2> HIDE DEF O
  <2>1. /\ w[0][f] = 0 /\ \A n \in 0 .. N : w[n][f] \in Nat
        /\ \A n \in 1 .. N :
             /\ n \notin O => w[n] = w[n - 1]
             /\ n \in O => w[n][f] = w[n - 1][f] + GetFromInvoke(s[n])[f]
    BY TotalRule
  <2>2. \A n \in 1 .. N : n \in O <=> on[n] = h
    BY <1>2 DEF O
  <2> HIDE DEF w, on
  <2>3. /\ w[0][f] = 0 /\ \A n \in 0 .. N : w[n][f] \in Nat
        /\ \A n \in 1 .. N :
             w[n][f] = IF on[n] = h THEN w[n - 1][f] + GetFromInvoke(s[n])[f]
                                    ELSE w[n - 1][f]
    BY <2>1, <2>2
  <2> QED
    BY <2>3 DEF w, O
<1> HIDE DEF N, on, t, u, Of
<1>5. N \in 0 .. N /\ 0 \in 0 .. N /\ \A n \in 1 .. N : n \in 0 .. N /\ n - 1 \in 0 .. N
  BY <1>1
<1>6. v \in [1 .. N -> Nat] /\ \A n \in 1 .. N : v[n] = GetFromInvoke(s[n])[f]
  BY <1>3
<1>7. /\ \A n \in 0 .. N : a[n] = t[n][f]
      /\ \A h \in 1 .. H : \A n \in 0 .. N : b[h][n] = u(h)[n][f]
  OBVIOUS
<1> HIDE DEF v, a, b
<1>8. a[0] = 0 /\ \A n \in 1 .. N : a[n] = a[n - 1] + v[n]
  BY <1>1, <1>3, <1>5, <1>6, <1>7
<1>9. /\ \A h \in 1 .. H : \A n \in 0 .. N : b[h][n] \in Nat
      /\ \A h \in 1 .. H : b[h][0] = 0
  <2>1. ASSUME NEW h \in 1 .. H
        PROVE  b[h][0] = 0 /\ \A n \in 0 .. N : b[h][n] \in Nat
    <3>1. /\ u(h)[0][f] = 0 /\ \A n \in 0 .. N : u(h)[n][f] \in Nat
          /\ \A n \in 0 .. N : b[h][n] = u(h)[n][f]
      BY <1>4, <1>7
    <3> QED
      BY <1>5, <3>1
  <2> QED
    BY <2>1
<1>10. \A h \in 1 .. H : \A n \in 1 .. N :
         b[h][n] = IF on[n] = h THEN b[h][n - 1] + v[n] ELSE b[h][n - 1]
  <2>1. ASSUME NEW h \in 1 .. H, NEW n \in 1 .. N
        PROVE  b[h][n] = IF on[n] = h THEN b[h][n - 1] + v[n] ELSE b[h][n - 1]
    <3>1. b[h][n] = u(h)[n][f] /\ b[h][n - 1] = u(h)[n - 1][f]
          /\ v[n] = GetFromInvoke(s[n])[f]
      BY <1>5, <1>6, <1>7
    <3> QED
      BY <1>4, <3>1
  <2> QED
    BY <2>1
<1>11. a[N] = SumOf([h \in 1 .. H |-> b[h][N]])[H]
  <2>1. ByHost(N, H, on, v, a, b)
    BY <1>1, <1>2, <1>6, <1>8, <1>9, <1>10 DEF ByHost
  <2> DEFINE r == [h \in 1 .. H |-> b[h][N]]
  <2>2. r = [h \in 1 .. H |-> b[h][N]]
    OBVIOUS
  <2> HIDE DEF r
  <2>3. a[N] = SumOf(r)[H]
    BY <2>1, <2>2, SumByHost
  <2> QED
    BY <2>3 DEF r
<1>12. [h \in 1 .. H |-> b[h][N]] = [h \in 1 .. H |-> HostStats(s, h)[f]]
  BY <1>1, <1>5, <1>7
<1>13. a[N] = Cluster(s)[f]
  BY <1>1, <1>5, <1>7
<1> QED
  BY <1>11, <1>12, <1>13

\* The longest time counts, and the status is OK if all are.
LEMMA TotalExtremes ==
  ASSUME NEW H, NEW T, NEW s \in Seq(InvokesOf(H, T)), NEW S
  PROVE  LET t == Total(s, S)[Len(s)]
             c(n) == GetFromInvoke(s[n])
             counted == {n \in 1 .. Len(s) : n \in S}
         IN /\ t.elapsed \in Nat
            /\ \A n \in counted : c(n).elapsed <= t.elapsed
            /\ t.elapsed = 0 \/ \E n \in counted : t.elapsed = c(n).elapsed
            /\ t.status = OK <=> \A n \in counted : s[n].status = OK
<1> DEFINE N == Len(s)
           t == Total(s, S)
           e == [n \in 1 .. N |-> GetFromInvoke(s[n]).elapsed]
           x == [n \in 1 .. N |-> s[n].status]
           Upto(n) == {i \in 1 .. n : i \in S}
           Good(n) ==
             /\ \A i \in Upto(n) : e[i] <= t[n].elapsed
             /\ t[n].elapsed = 0 \/ \E i \in Upto(n) : t[n].elapsed = e[i]
             /\ t[n].status = OK <=> \A i \in Upto(n) : x[i] = OK
           Z == {n \in Nat : n <= N => Good(n)}
<1>1. /\ N \in Nat /\ t[0].status = OK /\ t[0].elapsed = 0
      /\ \A n \in 0 .. N : t[n].elapsed \in Nat
      /\ \A n \in 1 .. N :
           /\ e[n] \in Nat
           /\ n \notin S => t[n] = t[n - 1]
           /\ n \in S =>
                /\ t[n].status = IF t[n - 1].status = OK THEN x[n] ELSE t[n - 1].status
                /\ t[n].elapsed = IF e[n] > t[n - 1].elapsed THEN e[n]
                                                             ELSE t[n - 1].elapsed
  BY TotalRule
<1>2. \A n \in 1 .. N : e[n] = GetFromInvoke(s[n]).elapsed /\ x[n] = s[n].status
  OBVIOUS
<1> HIDE DEF N, t, e, x
<1>3. Good(0)
  <2>1. Upto(0) = {}
    OBVIOUS
  <2> HIDE DEF Upto
  <2> QED
    BY <1>1, <2>1
<1>4. ASSUME NEW n \in Nat, n + 1 <= N, Good(n) PROVE Good(n + 1)
  <2>1. n + 1 \in 1 .. N /\ (n + 1) - 1 = n /\ n \in 0 .. N /\ n + 1 \in 0 .. N
        /\ \A i \in 1 .. n : i \in 1 .. N
    BY <1>1, <1>4
  <2>2. CASE n + 1 \notin S
    <3>1. Upto(n + 1) = Upto(n)
      BY <2>2
    <3>2. t[n + 1] = t[n]
      BY <1>1, <2>1, <2>2
    <3> HIDE DEF Upto
    <3> QED
      BY <1>4, <3>1, <3>2
  <2>3. CASE n + 1 \in S
    <3>1. /\ Upto(n + 1) = Upto(n) \cup {n + 1}
          /\ \A i \in Upto(n) : i \in 1 .. n
      BY <2>3
    <3>2. /\ t[n + 1].status = IF t[n].status = OK THEN x[n + 1] ELSE t[n].status
          /\ t[n + 1].elapsed = IF e[n + 1] > t[n].elapsed THEN e[n + 1] ELSE t[n].elapsed
          /\ e[n + 1] \in Nat /\ t[n].elapsed \in Nat
      BY <1>1, <2>1, <2>3
    <3>3. \A i \in Upto(n) : e[i] \in Nat
      BY <1>1, <2>1, <3>1
    <3> HIDE DEF Upto
    <3>4. \A i \in Upto(n + 1) : e[i] <= t[n + 1].elapsed
      BY <1>4, <3>1, <3>2, <3>3
    <3>5. t[n + 1].elapsed = 0 \/ \E i \in Upto(n + 1) : t[n + 1].elapsed = e[i]
      BY <1>4, <3>1, <3>2
    <3>6. t[n + 1].status = OK <=> \A i \in Upto(n + 1) : x[i] = OK
      BY <1>4, <3>1, <3>2
    <3> QED
      BY <3>4, <3>5, <3>6
  <2> QED
    BY <2>2, <2>3
<1> HIDE DEF Good
<1>5. 0 \in Z
  BY <1>3
<1>6. ASSUME NEW n \in Nat, n \in Z PROVE n + 1 \in Z
  <2>1. n + 1 <= N => n <= N
    BY <1>1, <1>6
  <2> QED
    BY <1>4, <1>6, <2>1
<1> HIDE DEF Z
<1>7. N \in Z
  BY <1>1, <1>5, <1>6, NatSetInduction
<1>8. Good(N) /\ t[N].elapsed \in Nat
  BY <1>1, <1>7 DEF Z
<1> QED
  BY <1>2, <1>8 DEF Good, t, N

LEMMA MaxIs ==
  ASSUME NEW S \in SUBSET Nat, NEW x \in S, \A y \in S : y <= x
  PROVE  Max(S) = x
<1>1. x \in S /\ \A y \in S : x >= y
  OBVIOUS
<1>2. Max(S) \in S /\ \A y \in S : Max(S) >= y
  BY <1>1 DEF Max
<1> DEFINE m == Max(S)
<1>3. m \in Nat /\ x \in Nat /\ m >= x /\ x >= m
  BY <1>1, <1>2
<1> HIDE DEF m
<1> QED
  BY <1>3 DEF m

LEMMA LongestOfHosts ==
  ASSUME NEW H \in Nat \ {0}, NEW T, NEW s \in Seq(InvokesOf(H, T))
  PROVE  Cluster(s).elapsed = Max({HostStats(s, h).elapsed : h \in 1 .. H})
<1> DEFINE N == Len(s)
           D == DOMAIN s
           Of(h) == {i \in DOMAIN s : s[i].onhost = h}
           all == Cluster(s).elapsed
           of == [h \in 1 .. H |-> HostStats(s, h).elapsed]
           e == [n \in 1 .. N |-> GetFromInvoke(s[n]).elapsed]
<1>1. D = 1 .. N /\ \A n \in 1 .. N : s[n].onhost \in 1 .. H
  <2>1. \A n \in 1 .. N : s[n] \in InvokesOf(H, T)
    OBVIOUS
  <2> QED
    BY <2>1 DEF InvokesOf
<1> HIDE DEF D
<1>2. /\ all \in Nat /\ \A n \in 1 .. N : e[n] <= all
      /\ all = 0 \/ \E n \in 1 .. N : all = e[n]
  <2>1. LET t == Total(s, D)[N]
            counted == {n \in 1 .. N : n \in D}
        IN /\ t.elapsed \in Nat /\ \A n \in counted : GetFromInvoke(s[n]).elapsed <= t.elapsed
           /\ t.elapsed = 0 \/ \E n \in counted : t.elapsed = GetFromInvoke(s[n]).elapsed
    BY TotalExtremes
  <2>2. all = Total(s, D)[N].elapsed /\ {n \in 1 .. N : n \in D} = 1 .. N
    BY <1>1 DEF Cluster, D
  <2> HIDE DEF all
  <2> QED
    BY <2>1, <2>2
<1>3. ASSUME NEW h \in 1 .. H
      PROVE  /\ of[h] \in Nat
             /\ \A n \in 1 .. N : s[n].onhost = h => e[n] <= of[h]
             /\ of[h] = 0 \/ \E n \in 1 .. N : of[h] = e[n]
  <2> DEFINE O == Of(h)
  <2> HIDE DEF O
  <2>1. LET t == Total(s, O)[N]
            counted == {n \in 1 .. N : n \in O}
        IN /\ t.elapsed \in Nat /\ \A n \in counted : GetFromInvoke(s[n]).elapsed <= t.elapsed
           /\ t.elapsed = 0 \/ \E n \in counted : t.elapsed = GetFromInvoke(s[n]).elapsed
    BY TotalExtremes
  <2>2. of[h] = Total(s, O)[N].elapsed /\ {n \in 1 .. N : n \in O} = {n \in 1 .. N : s[n].onhost = h}
    BY <1>1 DEF HostStats, O, D
  <2> HIDE DEF of
  <2> QED
    BY <2>1, <2>2
<1> HIDE DEF N, all, of, e
<1>4. \A h \in 1 .. H : of[h] <= all
  <2>1. ASSUME NEW h \in 1 .. H PROVE of[h] <= all
    <3>1. CASE of[h] = 0
      BY <1>2, <3>1
    <3>2. CASE \E n \in 1 .. N : of[h] = e[n]
      BY <1>2, <3>2
    <3> QED
      BY <1>3, <3>1, <3>2
  <2> QED
    BY <2>1
<1>5. \E h \in 1 .. H : of[h] = all
  <2>1. CASE all = 0
    <3>1. 1 \in 1 .. H
      OBVIOUS
    <3>2. of[1] \in Nat /\ of[1] <= all
      BY <1>3, <1>4, <3>1
    <3> QED
      BY <2>1, <3>1, <3>2
  <2>2. ASSUME NEW n \in 1 .. N, all = e[n] PROVE \E h \in 1 .. H : of[h] = all
    <3> DEFINE h == s[n].onhost
    <3>1. h \in 1 .. H
      BY <1>1
    <3>2. of[h] \in Nat /\ e[n] <= of[h] /\ of[h] <= all
      BY <1>3, <1>4, <2>2, <3>1
    <3> QED
      BY <1>2, <2>2, <3>1, <3>2
  <2> QED
    BY <1>2, <2>1, <2>2
<1> DEFINE S == {of[h] : h \in 1 .. H}
<1>6. S \in SUBSET Nat /\ all \in S /\ \A y \in S : y <= all
  BY <1>3, <1>4, <1>5
<1>7. S = {HostStats(s, h).elapsed : h \in 1 .. H}
  BY DEF of
<1> HIDE DEF S
<1>8. Max(S) = all
  BY <1>6, MaxIs
<1> QED
  BY <1>7, <1>8 DEF all

LEMMA ReversedStats ==
  ASSUME NEW H, NEW T, NEW s \in Seq(InvokesOf(H, T))
  PROVE  LET a == Cluster(s)
             b == Cluster(Reverse(s))
         IN /\ a \in Stats /\ b \in Stats /\ a.elapsed = b.elapsed
            /\ a.status = OK <=> b.status = OK
            /\ \A f \in SumFields : a[f] = b[f]
<1> DEFINE N == Len(s)
           r == Reverse(s)
           a == Cluster(s)
           b == Cluster(r)
           back(n) == (N - n) + 1
           e == [n \in 1 .. N |-> GetFromInvoke(s[n]).elapsed]
<1>1. /\ r \in Seq(InvokesOf(H, T)) /\ Len(r) = N /\ N \in Nat
      /\ \A n \in 1 .. N : r[n] = s[back(n)]
      /\ \A n \in 1 .. N : back(n) \in 1 .. N /\ back(back(n)) = n
  <2>1. /\ N \in Nat /\ r = [n \in 1 .. N |-> s[back(n)]]
        /\ \A n \in 1 .. N : back(n) \in 1 .. N /\ back(back(n)) = n
    BY DEF Reverse
  <2> HIDE DEF r, back
  <2> QED
    BY <2>1
<1> HIDE DEF r, back
<1>2. ASSUME NEW q \in Seq(InvokesOf(H, T))
      PROVE  LET t == Cluster(q)
             IN /\ t \in Stats /\ t.elapsed \in Nat
                /\ \A n \in 1 .. Len(q) : GetFromInvoke(q[n]).elapsed <= t.elapsed
                /\ \/ t.elapsed = 0
                   \/ \E n \in 1 .. Len(q) : t.elapsed = GetFromInvoke(q[n]).elapsed
                /\ t.status = OK <=> \A n \in 1 .. Len(q) : q[n].status = OK
  <2> DEFINE D == DOMAIN q
             t == Total(q, D)[Len(q)]
             counted == {n \in 1 .. Len(q) : n \in D}
  <2>1. counted = 1 .. Len(q) /\ Cluster(q) = t /\ Len(q) \in 0 .. Len(q)
    BY DEF Cluster
  <2> HIDE DEF D
  <2>2. t \in Stats
    BY <2>1, TotalRule
  <2>3. /\ t.elapsed \in Nat
        /\ \A n \in counted : GetFromInvoke(q[n]).elapsed <= t.elapsed
        /\ t.elapsed = 0 \/ \E n \in counted : t.elapsed = GetFromInvoke(q[n]).elapsed
        /\ t.status = OK <=> \A n \in counted : q[n].status = OK
    BY TotalExtremes
  <2> HIDE DEF t, counted
  <2> QED
    BY <2>1, <2>2, <2>3
<1>3. /\ a \in Stats /\ a.elapsed \in Nat
      /\ \A n \in 1 .. N : e[n] <= a.elapsed
      /\ a.elapsed = 0 \/ \E n \in 1 .. N : a.elapsed = e[n]
      /\ a.status = OK <=> \A n \in 1 .. N : s[n].status = OK
  <2> HIDE DEF a
  <2> QED
    BY <1>2 DEF a
<1>4. /\ b \in Stats /\ b.elapsed \in Nat
      /\ \A n \in 1 .. N : e[back(n)] <= b.elapsed
      /\ b.elapsed = 0 \/ \E n \in 1 .. N : b.elapsed = e[back(n)]
      /\ b.status = OK <=> \A n \in 1 .. N : s[back(n)].status = OK
  <2>1. \A n \in 1 .. N : e[back(n)] = GetFromInvoke(r[n]).elapsed /\ s[back(n)] = r[n]
    BY <1>1
  <2> HIDE DEF b, e, N
  <2>2. /\ b \in Stats /\ b.elapsed \in Nat
        /\ \A n \in 1 .. N : GetFromInvoke(r[n]).elapsed <= b.elapsed
        /\ b.elapsed = 0 \/ \E n \in 1 .. N : b.elapsed = GetFromInvoke(r[n]).elapsed
        /\ b.status = OK <=> \A n \in 1 .. N : r[n].status = OK
    BY <1>1, <1>2 DEF b
  <2> QED
    BY <2>1, <2>2
<1>5. ASSUME NEW f \in SumFields PROVE a[f] = b[f]
  <2> DEFINE v == [n \in 1 .. N |-> GetFromInvoke(s[n])[f]]
             w == [n \in 1 .. N |-> GetFromInvoke(r[n])[f]]
             D == DOMAIN s
  <2>1. a[f] = SumOf(v)[N]
    BY ClusterSums
  <2>2. b[f] = SumOf(w)[N]
    BY <1>1, ClusterSums
  <2> HIDE DEF D
  <2>3. \A n \in 1 .. N : GetFromInvoke(s[n])[f] \in Nat
    <3> HIDE DEF v, w, e, a, b
    <3>1. /\ \A n \in 1 .. N : GetFromInvoke(s[n])[f] \in Nat
          /\ Total(s, D)[0].status = OK
      BY TotalRule
    <3> QED
      BY <3>1
  <2>4. v \in Seq(Nat) /\ w \in Seq(Nat) /\ Len(v) = N /\ Len(w) = N
        /\ \A n \in 1 .. N : w[n] = v[(N - n) + 1]
    <3>1. \A n \in 1 .. N : w[n] = v[back(n)] /\ v[n] \in Nat /\ w[n] \in Nat
      BY <1>1, <2>3
    <3>2. v \in Seq(Nat) /\ w \in Seq(Nat) /\ Len(v) = N /\ Len(w) = N
      <4>1. \A n \in 1 .. N : GetFromInvoke(r[n])[f] \in Nat
        BY <1>1, <2>3
      <4>2. v \in [1 .. N -> Nat] /\ w \in [1 .. N -> Nat]
        BY <2>3, <4>1
      <4> HIDE DEF v, w, e, N, a, b
      <4> QED
        BY <1>1, <4>2
    <3> HIDE DEF v, w
    <3> QED
      BY <3>1, <3>2 DEF back
  <2> HIDE DEF v, w
  <2>5. SumOf(w)[N] = SumOf(v)[N]
    <3>1. SumOf(w)[Len(w)] = SumOf(v)[Len(v)]
      BY <2>4, SumReverse
    <3> QED
      BY <2>4, <3>1
  <2> QED
    BY <2>1, <2>2, <2>5
<1> HIDE DEF N, a, b, e
<1>6. a.elapsed = b.elapsed
  <2>1. \A n \in 1 .. N : e[n] <= b.elapsed
    <3>1. ASSUME NEW n \in 1 .. N PROVE e[n] <= b.elapsed
      <4>1. back(n) \in 1 .. N /\ back(back(n)) = n
        BY <1>1
      <4>2. e[back(back(n))] <= b.elapsed
        BY <1>4, <4>1
      <4> QED
        BY <4>1, <4>2
    <3> QED
      BY <3>1
  <2>2. \A n \in 1 .. N : e[back(n)] <= a.elapsed
    BY <1>1, <1>3
  <2>3. a.elapsed <= b.elapsed
    <3>1. CASE a.elapsed = 0
      BY <1>4, <3>1
    <3>2. CASE \E n \in 1 .. N : a.elapsed = e[n]
      BY <2>1, <3>2
    <3> QED
      BY <1>3, <3>1, <3>2
  <2>4. b.elapsed <= a.elapsed
    <3>1. CASE b.elapsed = 0
      BY <1>3, <3>1
    <3>2. CASE \E n \in 1 .. N : b.elapsed = e[back(n)]
      BY <2>2, <3>2
    <3> QED
      BY <1>4, <3>1, <3>2
  <2> QED
    BY <1>3, <1>4, <2>3, <2>4
<1>7. (\A n \in 1 .. N : s[back(n)].status = OK) <=> \A n \in 1 .. N : s[n].status = OK
  <2>1. ASSUME \A n \in 1 .. N : s[back(n)].status = OK, NEW n \in 1 .. N
        PROVE  s[n].status = OK
    <3>1. back(n) \in 1 .. N /\ back(back(n)) = n
      BY <1>1
    <3>2. s[back(back(n))].status = OK
      BY <2>1, <3>1
    <3> QED
      BY <3>1, <3>2
  <2> QED
    BY <1>1, <2>1
<1> QED
  BY <1>3, <1>4, <1>5, <1>6, <1>7 DEF a, b, r

\* The results of the threads add up in whatever order they come (TotalsAddUp).
THEOREM ResultsAddUp == Spec => []TotalsAddUp
<1>1. ASSUME NEW q \in ResultInputs
      PROVE  LET cluster == Cluster(q.invokes)
                 host == [h \in 1 .. q.hosts |-> HostStats(q.invokes, h)]
                 sum(numbers) == SumOf(numbers)[q.hosts]
                 back == Cluster(Reverse(q.invokes))
             IN /\ cluster.files = sum([h \in 1 .. q.hosts |-> host[h].files])
                /\ cluster.files_per_sec =
                     sum([h \in 1 .. q.hosts |-> host[h].files_per_sec])
                /\ cluster.IOPS = sum([h \in 1 .. q.hosts |-> host[h].IOPS])
                /\ cluster.elapsed = Max({host[h].elapsed : h \in 1 .. q.hosts})
                /\ cluster.status = OK <=>
                     \A i \in DOMAIN q.invokes : q.invokes[i].status = OK
                /\ [back EXCEPT !.status = cluster.status] = cluster
                /\ back.status = OK <=> cluster.status = OK
  <2> DEFINE H == q.hosts
             s == q.invokes
             a == Cluster(s)
             b == Cluster(Reverse(s))
             host == [h \in 1 .. H |-> HostStats(s, h)]
             D == DOMAIN s
  <2>1. H \in Nat \ {0} /\ s \in Seq(InvokesOf(H, q.thread_count))
    BY AlgorithmsAssumption
  <2> HIDE DEF H, s
  <2>2. \A f \in SumFields : a[f] = SumOf([h \in 1 .. H |-> HostStats(s, h)[f]])[H]
    BY <2>1, HostSums
  <2>3. /\ a.files = SumOf([h \in 1 .. H |-> HostStats(s, h).files])[H]
        /\ a.files_per_sec = SumOf([h \in 1 .. H |-> HostStats(s, h).files_per_sec])[H]
        /\ a.IOPS = SumOf([h \in 1 .. H |-> HostStats(s, h).IOPS])[H]
    <3> HIDE DEF a
    <3> QED
      BY <2>2, Zenon DEF SumFields
  <2>4. /\ [h \in 1 .. H |-> host[h].files] = [h \in 1 .. H |-> HostStats(s, h).files]
        /\ [h \in 1 .. H |-> host[h].files_per_sec]
             = [h \in 1 .. H |-> HostStats(s, h).files_per_sec]
        /\ [h \in 1 .. H |-> host[h].IOPS] = [h \in 1 .. H |-> HostStats(s, h).IOPS]
    OBVIOUS
  <2>5. a.elapsed = Max({host[h].elapsed : h \in 1 .. H})
    <3>1. a.elapsed = Max({HostStats(s, h).elapsed : h \in 1 .. H})
      BY <2>1, LongestOfHosts
    <3>2. {HostStats(s, h).elapsed : h \in 1 .. H} = {host[h].elapsed : h \in 1 .. H}
      OBVIOUS
    <3> HIDE DEF host, a
    <3> QED
      BY <3>1, <3>2
  <2>6. a.status = OK <=> \A i \in DOMAIN s : s[i].status = OK
    <3>1. D = 1 .. Len(s) /\ a = Total(s, D)[Len(s)]
      BY <2>1 DEF Cluster
    <3> HIDE DEF D, a
    <3>2. LET t == Total(s, D)[Len(s)]
              counted == {n \in 1 .. Len(s) : n \in D}
          IN t.status = OK <=> \A n \in counted : s[n].status = OK
      BY <2>1, TotalExtremes
    <3> QED
      BY <3>1, <3>2 DEF D
  <2>7. /\ a \in Stats /\ b \in Stats /\ a.elapsed = b.elapsed
        /\ a.status = OK <=> b.status = OK
        /\ a.files = b.files /\ a.records = b.records
        /\ a.files_per_sec = b.files_per_sec /\ a.IOPS = b.IOPS
    <3>1. /\ a \in Stats /\ b \in Stats /\ a.elapsed = b.elapsed
          /\ a.status = OK <=> b.status = OK
          /\ \A f \in SumFields : a[f] = b[f]
      BY <2>1, ReversedStats
    <3> HIDE DEF a, b
    <3> QED
      BY <3>1 DEF SumFields
  <2> HIDE DEF a, b, host
  <2>8. [b EXCEPT !.status = a.status] = a
    BY <2>7 DEF Stats
  <2> QED
    BY <2>3, <2>4, <2>5, <2>6, <2>7, <2>8 DEF H, s, a, b, host
<1>2. InputKept => TotalsAddUp
  BY <1>1 DEF InputKept, TotalsAddUp
<1> QED
  BY <1>2, InputInit, InputNext, PTL DEF Spec

\* The invokes are of different threads.
OneEach(s) ==
  \A i, j \in DOMAIN s : s[i].onhost = s[j].onhost /\ s[i].tid = s[j].tid => i = j

EveryThread(s, H, T) ==
  \A h \in 1 .. H, t \in 1 .. T : \E i \in DOMAIN s : s[i].onhost = h /\ s[i].tid = t

\* If there are as many invokes as threads then there is one of every thread.
LEMMA AllThreads ==
  ASSUME NEW H \in Nat \ {0}, NEW T \in Nat \ {0}, NEW s \in Seq(InvokesOf(H, T)),
         OneEach(s), ~TooFewResponses(s, H, T)
  PROVE  Len(s) = H * T /\ EveryThread(s, H, T)
<1> DEFINE N == Len(s)
           A == 1 .. H
           B == 1 .. T
           Pairs == A \X B
           f == [i \in 1 .. N |-> <<s[i].onhost, s[i].tid>>]
<1>1. \A i \in 1 .. N : s[i].onhost \in A /\ s[i].tid \in B
  <2>1. \A i \in 1 .. N : s[i] \in InvokesOf(H, T)
    OBVIOUS
  <2> QED
    BY <2>1 DEF InvokesOf
<1>2. IsFiniteSet(Pairs) /\ Cardinality(Pairs) = H * T
  <2>1. IsFiniteSet(A) /\ Cardinality(A) = H /\ IsFiniteSet(B) /\ Cardinality(B) = T
    BY FS_Interval
  <2> HIDE DEF A, B
  <2> QED
    BY <2>1, FS_Product
<1>3. f \in Injection(1 .. N, Pairs)
  <2>1. f \in [1 .. N -> Pairs]
    BY <1>1
  <2>2. ASSUME NEW i \in 1 .. N, NEW j \in 1 .. N, f[i] = f[j] PROVE i = j
    <3>1. s[i].onhost = s[j].onhost /\ s[i].tid = s[j].tid
      BY <2>2
    <3> QED
      BY <3>1 DEF OneEach
  <2> HIDE DEF f, Pairs
  <2> QED
    BY <2>1, <2>2 DEF Injection, IsInjective
<1>4. IsFiniteSet(1 .. N) /\ Cardinality(1 .. N) = N /\ N \in Nat
  <2>1. N \in Nat
    OBVIOUS
  <2> HIDE DEF N
  <2> QED
    BY <2>1, FS_Interval
<1>5. N = H * T /\ f \in Surjection(1 .. N, Pairs)
  <2>1. /\ Cardinality(1 .. N) <= Cardinality(Pairs)
        /\ Cardinality(1 .. N) = Cardinality(Pairs) <=> f \in Surjection(1 .. N, Pairs)
    <3> HIDE DEF f, Pairs, N
    <3> QED
      BY <1>2, <1>3, FS_Injection
  <2> DEFINE m == H * T
  <2>2. m \in Nat /\ ~(N < m) /\ Cardinality(Pairs) = m
    BY <1>2 DEF TooFewResponses
  <2> HIDE DEF m, N, Pairs
  <2>3. N = m
    BY <1>4, <2>1, <2>2
  <2> QED
    BY <1>4, <2>1, <2>2, <2>3 DEF m
<1>6. ASSUME NEW h \in A, NEW t \in B
      PROVE  \E i \in 1 .. N : s[i].onhost = h /\ s[i].tid = t
  <2>1. <<h, t>> \in Pairs
    OBVIOUS
  <2>2. PICK i \in 1 .. N : f[i] = <<h, t>>
    <3> HIDE DEF f, Pairs, N
    <3> QED
      BY <1>5, <2>1 DEF Surjection
  <2> QED
    BY <2>2
<1>7. DOMAIN s = 1 .. N
  OBVIOUS
<1>8. EveryThread(s, H, T)
  <2>1. SUFFICES ASSUME NEW h \in A, NEW t \in B
                 PROVE  \E i \in DOMAIN s : s[i].onhost = h /\ s[i].tid = t
    BY DEF EveryThread
  <2>2. PICK i \in 1 .. N : s[i].onhost = h /\ s[i].tid = t
    BY <1>6
  <2> QED
    BY <1>7, <2>2
<1> QED
  BY <1>5, <1>8

\* Nothing is missing from a result without a warning (SilentMeansComplete).
THEOREM NothingIsMissing == Spec => []SilentMeansComplete
<1>1. ASSUME NEW q \in ResultInputs, q.invokes # <<>>,
             Warnings(q.invokes, q.hosts, q.thread_count, q.iterations) = {}
      PROVE  /\ \A h \in 1 .. q.hosts, t \in 1 .. q.thread_count :
                  \E i \in DOMAIN q.invokes :
                    LET invk == q.invokes[i]
                    IN /\ invk.onhost = h /\ invk.tid = t
                       /\ invk.status = OK /\ invk.elapsed_time # None
             /\ 100 * SumOf([i \in DOMAIN q.invokes |-> q.invokes[i].filenum_final])
                        [Len(q.invokes)]
                  >= pct_files_min * q.iterations * q.hosts * q.thread_count
  <2> DEFINE H == q.hosts
             T == q.thread_count
             K == q.iterations
             s == q.invokes
             N == Len(s)
             D == DOMAIN s
             v == [n \in 1 .. N |-> GetFromInvoke(s[n]).files]
  <2>1. /\ H \in Nat \ {0} /\ T \in Nat \ {0} /\ K \in Nat /\ s \in Seq(InvokesOf(H, T))
        /\ OneEach(s)
    BY AlgorithmsAssumption DEF OneEach
  <2>2. Warnings(s, H, T, K) = {}
    BY <1>1
  <2> HIDE DEF H, T, K, s
  <2>3. /\ \A i \in DOMAIN s : s[i].elapsed_time # None
        /\ ~TooFewResponses(s, H, T)
        /\ Cluster(s).status = OK
        /\ ~TooFewFiles(s, K)
    <3> DEFINE W == {"never completed", "responses", "too short", "thread error", "files"}
               Printed(w) ==
                 CASE w = "never completed" -> \E i \in DOMAIN s : s[i].elapsed_time = None
                   [] w = "responses" -> TooFewResponses(s, H, T)
                   [] w = "too short" -> Cluster(s).elapsed = 0
                   [] w = "thread error" -> Cluster(s).status # OK
                   [] w = "files" -> Cluster(s).status = OK /\ TooFewFiles(s, K)
    <3>1. \A w \in W : ~Printed(w)
      BY <2>2 DEF Warnings
    <3>2. ~Printed("never completed") /\ ~Printed("responses") /\ ~Printed("thread error")
          /\ ~Printed("files")
      <4> HIDE DEF Printed
      <4> QED
        BY <3>1
    <3> QED
      BY <3>2
  <2>4. N = H * T /\ D = 1 .. N
        /\ \A h \in 1 .. H, t \in 1 .. T :
             \E i \in 1 .. N : s[i].onhost = h /\ s[i].tid = t
    <3>1. D = 1 .. N
      BY <2>1
    <3> HIDE DEF D, v
    <3>2. Len(s) = H * T /\ EveryThread(s, H, T)
      BY <2>1, <2>3, AllThreads
    <3> QED
      BY <3>1, <3>2 DEF EveryThread, D
  <2>5. \A i \in 1 .. N : s[i].status = OK
    <3> HIDE DEF D
    <3>1. LET t == Total(s, D)[Len(s)]
              counted == {n \in 1 .. Len(s) : n \in D}
          IN t.status = OK <=> \A n \in counted : s[n].status = OK
      BY <2>1, TotalExtremes
    <3>2. Cluster(s) = Total(s, D)[Len(s)]
      BY DEF Cluster, D
    <3> QED
      BY <2>3, <2>4, <3>1, <3>2
  <2>6. \A h \in 1 .. H, t \in 1 .. T :
          \E i \in DOMAIN s :
            s[i].onhost = h /\ s[i].tid = t /\ s[i].status = OK /\ s[i].elapsed_time # None
    BY <2>3, <2>4, <2>5
  <2>7. [i \in DOMAIN s |-> s[i].filenum_final] = v
    <3>1. ASSUME NEW i \in 1 .. N PROVE GetFromInvoke(s[i]).files = s[i].filenum_final
      <4>1. s[i] \in InvokesOf(H, T) /\ s[i].elapsed_time # None
        BY <2>1, <2>3, <2>4, <3>1
      <4>2. s[i].filenum_final # None
        BY <4>1 DEF InvokesOf
      <4> QED
        BY <4>1, <4>2, InvokeStats
    <3> QED
      BY <2>4, <3>1
  <2>8. Cluster(s).files = SumOf(v)[N] /\ Cluster(s).files \in Nat
    <3>1. "files" \in SumFields
      BY DEF SumFields
    <3>2. Cluster(s)["files"] = SumOf([n \in 1 .. N |-> GetFromInvoke(s[n])["files"]])[N]
      BY <2>1, <3>1, ClusterSums
    <3>3. Cluster(s) \in Stats
      BY <2>1, ReversedStats
    <3> QED
      BY <3>2, <3>3 DEF Stats
  <2>9. 100 * SumOf(v)[N] >= pct_files_min * K * H * T
    <3> DEFINE F == SumOf(v)[N]
               m == H * T
    <3>1. F \in Nat /\ N = m /\ m \in Nat /\ ~(100 * F < pct_files_min * K * N)
      BY <2>1, <2>3, <2>4, <2>8 DEF TooFewFiles
    <3>2. pct_files_min * K * H * T = pct_files_min * K * m
      BY <2>1 DEF pct_files_min
    <3> HIDE DEF F, m, N
    <3>3. pct_files_min * K * m \in Nat /\ ~(100 * F < pct_files_min * K * m)
      BY <2>1, <3>1 DEF pct_files_min
    <3>4. 100 * F >= pct_files_min * K * m
      BY <3>1, <3>3
    <3> QED
      BY <3>2, <3>4 DEF F
  <2>10. 100 * SumOf([i \in DOMAIN s |-> s[i].filenum_final])[Len(s)]
           >= pct_files_min * K * H * T
    <3> HIDE DEF v
    <3> QED
      BY <2>7, <2>9
  <2> QED
    BY <2>6, <2>10 DEF H, T, K, s
<1>2. InputKept => SilentMeansComplete
  BY <1>1 DEF InputKept, SilentMeansComplete
<1> QED
  BY <1>2, InputInit, InputNext, PTL DEF Spec

-----------------------------------------------------------------------------
\* Response times.

SampleFile == Seq([at : Nat, rsp : Nat])

LEMMA SampleOf ==
  ASSUME NEW t \in SampleFile
  PROVE  /\ \A i \in DOMAIN t : i \in Nat /\ t[i] \in [at : Nat, rsp : Nat]
         /\ t # <<>> => t[Len(t)] \in [at : Nat, rsp : Nat]
<1> DEFINE R == [at : Nat, rsp : Nat]
<1>1. t \in Seq(R)
  BY DEF SampleFile
<1> HIDE DEF R
<1>2. /\ \A i \in DOMAIN t : i \in Nat /\ t[i] \in R
      /\ t # <<>> => t[Len(t)] \in R
  BY <1>1
<1> QED
  BY <1>2 DEF R

LEMMA SamplesType ==
  ASSUME NEW threads \in Seq(SampleFile)
  PROVE  /\ IsFiniteSet(Samples(threads))
         /\ \A s \in Samples(threads) :
              /\ AtTime(threads, s) \in Nat /\ s[1] \in Nat /\ s[2] \in Nat
              /\ s = <<s[1], s[2]>>
<1> DEFINE N == Len(threads)
           File(k) == {k} \X DOMAIN threads[k]
           F == {File(k) : k \in 1 .. N}
           f == [k \in 1 .. N |-> File(k)]
<1>1. /\ N \in Nat /\ DOMAIN threads = 1 .. N
      /\ \A k \in 1 .. N : threads[k] \in SampleFile
  OBVIOUS
<1>2. ASSUME NEW k \in 1 .. N PROVE IsFiniteSet(File(k))
  <2>1. DOMAIN threads[k] = 1 .. Len(threads[k]) /\ Len(threads[k]) \in Nat
    BY <1>1 DEF SampleFile
  <2> DEFINE n == Len(threads[k])
             D == DOMAIN threads[k]
  <2>2. IsFiniteSet({k}) /\ IsFiniteSet(D)
    <3>1. D = 1 .. n /\ n \in Nat
      BY <2>1
    <3> HIDE DEF n, D
    <3>2. IsFiniteSet(D)
      BY <3>1, FS_Interval
    <3> QED
      BY <3>2, FS_Singleton
  <2> HIDE DEF D
  <2>3. IsFiniteSet({k} \X D)
    BY <2>2, FS_Product
  <2> QED
    BY <2>3 DEF D
<1>3. IsFiniteSet(F)
  <2>1. IsFiniteSet(1 .. N)
    BY <1>1, FS_Interval
  <2>2. f \in Surjection(1 .. N, F)
    BY DEF Surjection
  <2> HIDE DEF f, F
  <2> QED
    BY <2>1, <2>2, FS_Surjection
<1>4. Samples(threads) = UNION F
  BY <1>1 DEF Samples
<1>5. IsFiniteSet(UNION F)
  <2>1. \A T \in F : IsFiniteSet(T)
    <3> HIDE DEF File
    <3> QED
      BY <1>2
  <2> HIDE DEF F
  <2> QED
    BY <1>3, <2>1, FS_UNION
<1>6. ASSUME NEW s \in Samples(threads)
      PROVE  /\ AtTime(threads, s) \in Nat /\ s[1] \in Nat /\ s[2] \in Nat
             /\ s = <<s[1], s[2]>>
  <2>1. PICK k \in 1 .. N : s \in {k} \X DOMAIN threads[k]
    BY <1>4
  <2>2. s = <<s[1], s[2]>> /\ s[1] = k /\ s[2] \in DOMAIN threads[k]
    BY <2>1
  <2>3. threads[k] \in SampleFile
    BY <1>1
  <2>4. s[2] \in Nat /\ threads[k][s[2]] \in [at : Nat, rsp : Nat]
    <3> DEFINE t == threads[k]
               i == s[2]
    <3>1. t \in SampleFile /\ i \in DOMAIN t
      BY <2>2, <2>3
    <3> HIDE DEF t, i
    <3>2. i \in Nat /\ t[i] \in [at : Nat, rsp : Nat]
      BY <3>1, SampleOf
    <3> QED
      BY <3>2 DEF t, i
  <2> QED
    BY <1>1, <2>2, <2>4 DEF AtTime
<1> QED
  BY <1>4, <1>5, <1>6

\* The samples before a certain one, and it.
LEMMA IndexRule ==
  ASSUME NEW threads \in Seq(SampleFile), NEW s \in Samples(threads)
  PROVE  LET at(q) == AtTime(threads, q)
             before == {q \in Samples(threads) : Before(threads, q, s)}
         IN /\ Index(threads, s) \in Nat /\ IsFiniteSet(before)
            /\ \A q \in before : at(q) <= at(s)
            /\ \A q \in Samples(threads) : at(q) < at(s) => q \in before
            /\ IsFiniteSet(before \cup {s})
            /\ Cardinality(before \cup {s}) = Index(threads, s) + 1
<1> DEFINE before == {q \in Samples(threads) : Before(threads, q, s)}
<1>1. IsFiniteSet(before)
  <2>1. IsFiniteSet(Samples(threads)) /\ before \in SUBSET Samples(threads)
    BY SamplesType
  <2> HIDE DEF before
  <2> QED
    BY <2>1, FS_Subset
<1>2. s \notin before
  BY SamplesType DEF Before
<1>3. /\ \A q \in before : AtTime(threads, q) <= AtTime(threads, s)
      /\ \A q \in Samples(threads) : AtTime(threads, q) < AtTime(threads, s) => q \in before
  BY SamplesType DEF Before
<1>4. Index(threads, s) = Cardinality(before)
  BY DEF Index
<1> HIDE DEF before
<1>5. /\ Cardinality(before) \in Nat
      /\ IsFiniteSet(before \cup {s}) /\ Cardinality(before \cup {s}) = Cardinality(before) + 1
  BY <1>1, <1>2, FS_CardinalityType, FS_AddElement
<1> QED
  BY <1>1, <1>3, <1>4, <1>5 DEF before

LEMMA FewerThan ==
  ASSUME NEW S, NEW T, IsFiniteSet(T), S \subseteq T
  PROVE  /\ IsFiniteSet(S) /\ Cardinality(S) \in Nat /\ Cardinality(T) \in Nat
         /\ Cardinality(S) <= Cardinality(T)
BY FS_Subset, FS_CardinalityType

\* The slice is of the samples that began after the one time and before the other.
LEMMA SliceRule ==
  ASSUME NEW threads \in Seq(SampleFile), NEW x \in Nat, NEW y \in Nat
  PROVE  InInterval(threads, x, y) =
           {s \in Samples(threads) : x < AtTime(threads, s) /\ AtTime(threads, s) < y}
<1> DEFINE at(q) == AtTime(threads, q)
           upto == {q \in Samples(threads) : at(q) <= x}
           below == {q \in Samples(threads) : at(q) < y}
           before(s) == {q \in Samples(threads) : Before(threads, q, s)}
<1>1. /\ find_le(threads, x) = Cardinality(upto) /\ find_gt(threads, y) = Cardinality(below)
      /\ \A s \in Samples(threads) : Index(threads, s) = Cardinality(before(s))
  BY DEF find_le, find_gt, Index
<1>2. /\ \A s \in Samples(threads) : at(s) \in Nat
      /\ upto \subseteq Samples(threads) /\ below \subseteq Samples(threads)
      /\ IsFiniteSet(Samples(threads))
  BY SamplesType
<1>3. /\ IsFiniteSet(upto) /\ IsFiniteSet(below)
      /\ Cardinality(upto) \in Nat /\ Cardinality(below) \in Nat
  <2> HIDE DEF upto, below
  <2> QED
    BY <1>2, FewerThan
<1>4. ASSUME NEW s \in Samples(threads)
      PROVE  /\ at(s) > x <=> Cardinality(upto) <= Index(threads, s)
             /\ at(s) < y <=> Index(threads, s) < Cardinality(below)
  <2> DEFINE b == before(s)
             i == Index(threads, s)
  <2>1. /\ i \in Nat /\ IsFiniteSet(b) /\ i = Cardinality(b)
        /\ \A q \in b : at(q) <= at(s) /\ q \in Samples(threads)
        /\ \A q \in Samples(threads) : at(q) < at(s) => q \in b
        /\ IsFiniteSet(b \cup {s}) /\ Cardinality(b \cup {s}) = i + 1
    BY <1>1, IndexRule
  <2>2. at(s) \in Nat
    BY <1>2
  <2>3. /\ at(s) > x => upto \subseteq b
        /\ at(s) <= x => b \cup {s} \subseteq upto
        /\ at(s) < y => b \cup {s} \subseteq below
        /\ at(s) >= y => below \subseteq b
    <3> HIDE DEF b, at
    <3> QED
      BY <1>2, <2>1, <2>2
  <2> HIDE DEF b, i, upto, below, at
  <2>4. /\ at(s) > x => Cardinality(upto) <= i
        /\ at(s) <= x => i + 1 <= Cardinality(upto)
        /\ at(s) < y => i + 1 <= Cardinality(below)
        /\ at(s) >= y => Cardinality(below) <= i
    BY <1>3, <2>1, <2>3, FewerThan
  <2> QED
    BY <1>3, <2>1, <2>2, <2>4 DEF i
<1> HIDE DEF at, upto, below, before
<1>5. ASSUME NEW s \in Samples(threads)
      PROVE  Index(threads, s) \in find_le(threads, x) .. find_gt(threads, y) - 1
               <=> x < at(s) /\ at(s) < y
  <2>1. Index(threads, s) \in Nat
    BY IndexRule
  <2> QED
    BY <1>1, <1>2, <1>3, <1>4, <2>1
<1> QED
  BY <1>5 DEF InInterval, at

LEMMA EndType ==
  ASSUME NEW threads \in Seq(SampleFile) \ {<<>>}, NEW interval \in Nat \ {0}
  PROVE  QuantizedEnd(threads, interval) \in Nat
<1> DEFINE e == ThreadEnds(threads)
           m == Max(Range(e))
<1>1. e \in Seq(Nat) \ {<<>>}
  <2>1. ASSUME NEW k \in DOMAIN threads
        PROVE  (LET s == threads[k] IN IF s = <<>> THEN 0 ELSE s[Len(s)].at + s[Len(s)].rsp)
                 \in Nat
    <3> DEFINE s == threads[k]
    <3>1. s \in SampleFile
      BY <2>1
    <3> HIDE DEF s
    <3>2. s # <<>> => s[Len(s)] \in [at : Nat, rsp : Nat]
      BY <3>1, SampleOf
    <3>3. (IF s = <<>> THEN 0 ELSE s[Len(s)].at + s[Len(s)].rsp) \in Nat
      BY <3>2
    <3> QED
      BY <3>3 DEF s
  <2>2. e \in [DOMAIN threads -> Nat]
    BY <2>1 DEF ThreadEnds
  <2>3. DOMAIN threads = 1 .. Len(threads) /\ Len(threads) \in Nat \ {0}
    OBVIOUS
  <2> HIDE DEF e
  <2> QED
    BY <2>2, <2>3
<1>2. \E k \in 1 .. Len(e) : m = e[k]
  <2> HIDE DEF e
  <2> QED
    BY <1>1, RangeExtremes
<1>3. m \in Nat
  <2> HIDE DEF e
  <2> QED
    BY <1>1, <1>2
<1> HIDE DEF m
<1>4. m \div Second \in Nat
  BY <1>3, RspStatsAssumption, DivModType
<1> DEFINE n == m \div Second
<1> HIDE DEF n
<1>5. n \in Nat
  BY <1>4 DEF n
<1>6. n \div interval \in Nat
  BY <1>5, DivModType
<1>7. QuantizedEnd(threads, interval) = (n \div interval) * interval
  BY DEF QuantizedEnd, n, m
<1> QED
  BY <1>6, <1>7

\* Two intervals are one after the other.
LEMMA IntervalsApart ==
  ASSUME NEW I \in Nat \ {0}, NEW first \in Nat, NEW t \in Nat, NEW u \in Nat,
         first <= t, first <= u, (t - first) % I = 0, (u - first) % I = 0, t < u
  PROVE  t + I <= u
<1> DEFINE a == (t - first) \div I
           b == (u - first) \div I
<1>1. t - first \in Nat /\ u - first \in Nat
  OBVIOUS
<1>2. a \in Nat /\ b \in Nat /\ t - first = I * a /\ u - first = I * b
  <2>1. a \in Nat /\ t - first = I * a + ((t - first) % I)
    BY <1>1, DivModType
  <2>2. b \in Nat /\ u - first = I * b + ((u - first) % I)
    BY <1>1, DivModType
  <2> HIDE DEF a, b
  <2>3. I * a \in Nat /\ I * b \in Nat
    BY <2>1, <2>2
  <2> QED
    BY <2>1, <2>2, <2>3
<1> HIDE DEF a, b
<1>3. a < b
  <2> SUFFICES ASSUME a >= b PROVE FALSE
    BY <1>2
  <2>1. I * (a - b) >= 0 /\ I * (a - b) = I * a - I * b
    BY <1>2
  <2>2. I * a \in Nat /\ I * b \in Nat
    BY <1>2
  <2> QED
    BY <1>2, <2>1, <2>2
<1>4. I * (b - (a + 1)) >= 0 /\ I * (b - (a + 1)) = I * b - (I * a + I)
  BY <1>2, <1>3
<1>5. I * a \in Nat /\ I * b \in Nat
  BY <1>2
<1> QED
  BY <1>2, <1>4, <1>5

\* Where an interval begins, and which times are within it.
LEMMA StartsRule ==
  ASSUME NEW threads \in Seq(SampleFile) \ {<<>>}, NEW start \in Nat,
         NEW I \in Nat \ {0}, NEW t
  PROVE  t \in IntervalStarts(threads, start, I) <=>
           /\ t \in Nat /\ start <= t /\ t < QuantizedEnd(threads, I)
           /\ (t - start) % I = 0
<1>1. QuantizedEnd(threads, I) \in Nat
  BY EndType
<1> DEFINE end == QuantizedEnd(threads, I)
<1> HIDE DEF end
<1>2. /\ IntervalStarts(threads, start, I) =
           IF end > 0 THEN {u \in start .. end - 1 : (u - start) % I = 0} ELSE {}
      /\ end \in Nat
  BY <1>1 DEF IntervalStarts, end
<1>3. t \in start .. end - 1 <=> t \in Nat /\ start <= t /\ t < end
  BY <1>2
<1> QED
  BY <1>2, <1>3 DEF end

\* A time is strictly within an interval unless it is a boundary.
LEMMA WithinOne ==
  ASSUME NEW start \in Nat, NEW I \in Nat \ {0}, NEW S \in Nat \ {0}, NEW end \in Nat,
         NEW at \in Nat, start * S <= at, at < end * S
  PROVE  (at - start * S) % (I * S) # 0 <=>
           \E t \in Nat : /\ start <= t /\ t < end /\ (t - start) % I = 0
                          /\ t * S < at /\ at < (t + I) * S
<1> DEFINE first == start * S
           M == I * S
           d == at - first
<1>1. first \in Nat /\ M \in Nat \ {0} /\ d \in Nat /\ at = first + d
  OBVIOUS
<1>2. ASSUME NEW b \in Nat
      PROVE  LET t == start + I * b
             IN /\ t \in Nat /\ start <= t /\ t - start = I * b
                /\ t * S = first + M * b /\ (t + I) * S = first + (M * b + M)
                /\ (t - start) % I = 0
  <2> DEFINE j == I * b
  <2>1. j \in Nat
    OBVIOUS
  <2>2. (start + j) * S = start * S + j * S /\ (start + j + I) * S = start * S + j * S + I * S
    <3> HIDE DEF j
    <3> QED
      BY <2>1
  <2>3. j * S = M * b /\ j * S \in Nat
    OBVIOUS
  <2>4. j % I = 0
    <3>1. j = I * b + 0 /\ 0 \in 0 .. I - 1
      OBVIOUS
    <3> QED
      BY <2>1, <3>1, DivModUnique
  <2> HIDE DEF j, M, first
  <2>5. /\ start + j \in Nat /\ start <= start + j /\ (start + j) - start = j
    BY <2>1
  <2>6. first = start * S /\ M = I * S
    BY DEF first, M
  <2> QED
    BY <1>1, <2>1, <2>2, <2>3, <2>4, <2>5, <2>6 DEF j
<1> HIDE DEF first, M, d
<1>3. ASSUME d % M # 0
      PROVE  \E t \in Nat : /\ start <= t /\ t < end /\ (t - start) % I = 0
                            /\ t * S < at /\ at < (t + I) * S
  <2> DEFINE q == d \div M
             t == start + I * q
             r == d % M
  <2>1. q \in Nat /\ r \in 0 .. M - 1 /\ d = M * q + r
    BY <1>1, DivModType
  <2>2. /\ t \in Nat /\ start <= t /\ (t - start) % I = 0
        /\ t * S = first + M * q /\ (t + I) * S = first + (M * q + M)
    BY <1>2, <2>1
  <2>3. r # 0
    BY <1>3
  <2> HIDE DEF q, t, r
  <2>4. M * q \in Nat
    BY <1>1, <2>1
  <2>5. t * S < at /\ at < (t + I) * S
    BY <1>1, <2>1, <2>2, <2>3, <2>4
  <2>6. t < end
    <3> SUFFICES ASSUME t >= end PROVE FALSE
      BY <2>2
    <3>1. (t - end) * S >= 0 /\ (t - end) * S = t * S - end * S
      BY <2>2
    <3>2. t * S \in Nat /\ end * S \in Nat
      BY <2>2
    <3> QED
      BY <2>5, <3>1, <3>2
  <2> QED
    BY <2>2, <2>5, <2>6
<1>4. ASSUME NEW t \in Nat, start <= t, (t - start) % I = 0, t * S < at, at < (t + I) * S
      PROVE  d % M # 0
  <2> DEFINE b == (t - start) \div I
  <2>1. t - start \in Nat
    BY <1>4
  <2>2. b \in Nat /\ t - start = I * b + ((t - start) % I)
    BY <2>1, DivModType
  <2> HIDE DEF b
  <2>3. I * b \in Nat
    BY <2>2
  <2>4. t = start + I * b
    BY <1>4, <2>2, <2>3
  <2>5. t * S = first + M * b /\ (t + I) * S = first + (M * b + M)
    BY <1>2, <2>2, <2>4
  <2>6. M * b \in Nat
    BY <1>1, <2>2
  <2> DEFINE r == d - M * b
  <2>7. r \in 0 .. M - 1 /\ r # 0 /\ d = M * b + r
    BY <1>1, <1>4, <2>5, <2>6
  <2> HIDE DEF r
  <2>8. d % M = r
    BY <1>1, <2>2, <2>7, DivModUnique
  <2> QED
    BY <2>7, <2>8
<1> QED
  BY <1>3, <1>4 DEF d, M, first

\* Every sample of an interval counts in it and in no other (EachSampleOnce).
THEOREM EverySampleCounts == Spec => []EachSampleOnce
<1>1. ASSUME NEW p \in SampleInputs
      PROVE  LET threads == p.threads
                 interval == p.time_interval
                 first == p.start_time * Second
                 slices == Slices(threads, p.start_time, interval)
                 at(s) == AtTime(threads, s)
                 inside(t) == {s \in Samples(threads) :
                                 t * Second < at(s) /\ at(s) < (t + interval) * Second}
             IN /\ \A t \in DOMAIN slices :
                     /\ slices[t] \in {{}, inside(t)}
                     /\ slices[t] = {} <=> Cardinality(inside(t)) < min_rsptime_samples
                     /\ \A other \in DOMAIN slices \ {t} : slices[t] \cap slices[other] = {}
                /\ \A s \in Samples(threads) :
                     first <= at(s) /\ at(s) < QuantizedEnd(threads, interval) * Second =>
                       ((at(s) - first) % (interval * Second) # 0
                          <=> \E t \in DOMAIN slices : s \in inside(t))
  <2> DEFINE threads == p.threads
             I == p.time_interval
             start == p.start_time
             S == Second
             slices == Slices(threads, start, I)
             at(s) == AtTime(threads, s)
             inside(t) == {s \in Samples(threads) : t * S < at(s) /\ at(s) < (t + I) * S}
             end == QuantizedEnd(threads, I)
  <2>1. /\ threads \in Seq(SampleFile) \ {<<>>} /\ start \in Nat /\ I \in Nat \ {0}
        /\ S \in Nat \ {0} /\ min_rsptime_samples \in Nat \ {0}
    BY AlgorithmsAssumption, RspStatsAssumption DEF SampleFile
  <2> HIDE DEF threads, I, start, S
  <2>2. end \in Nat
    BY <2>1, EndType
  <2>3. \A t : t \in DOMAIN slices <=>
                 t \in Nat /\ start <= t /\ t < end /\ (t - start) % I = 0
    BY <2>1, StartsRule DEF Slices
  <2>4. \A s \in Samples(threads) : at(s) \in Nat
    BY <2>1, SamplesType
  <2>5. ASSUME NEW t \in DOMAIN slices
        PROVE  slices[t] = IF Cardinality(inside(t)) < min_rsptime_samples THEN {}
                           ELSE inside(t)
    <3>1. t * S \in Nat /\ (t + I) * S \in Nat
      BY <2>1, <2>3, <2>5
    <3>2. InInterval(threads, t * S, (t + I) * S) = inside(t)
      BY <2>1, <3>1, SliceRule
    <3>3. slices[t] = ReduceThreadSet(threads, t * S, (t + I) * S)
      BY <2>5 DEF Slices, S
    <3> HIDE DEF inside
    <3> QED
      BY <3>2, <3>3 DEF ReduceThreadSet
  <2>6. ASSUME NEW t \in DOMAIN slices
        PROVE  slices[t] = {} <=> Cardinality(inside(t)) < min_rsptime_samples
    <3>1. inside(t) = {} => Cardinality(inside(t)) < min_rsptime_samples
      <4> DEFINE z == inside(t)
      <4> HIDE DEF z
      <4>1. z = {} => Cardinality(z) = 0
        BY FS_EmptySet
      <4> QED
        BY <2>1, <4>1 DEF z
    <3> HIDE DEF inside, slices
    <3> QED
      BY <2>5, <3>1
  <2>7. ASSUME NEW t \in DOMAIN slices, NEW u \in DOMAIN slices, t < u
        PROVE  inside(t) \cap inside(u) = {}
    <3>1. t + I <= u /\ t \in Nat /\ u \in Nat
      BY <2>1, <2>3, <2>7, IntervalsApart
    <3>2. (u - (t + I)) * S >= 0 /\ (u - (t + I)) * S = u * S - (t + I) * S
      BY <2>1, <3>1
    <3>3. u * S \in Nat /\ (t + I) * S \in Nat
      BY <2>1, <3>1
    <3> DEFINE x == (t + I) * S
               y == u * S
    <3>4. x <= y /\ x \in Nat /\ y \in Nat
      BY <3>2, <3>3
    <3>5. /\ \A s \in inside(t) : s \in Samples(threads) /\ at(s) < x
          /\ \A s \in inside(u) : y < at(s)
      OBVIOUS
    <3> HIDE DEF x, y, inside, at
    <3> QED
      BY <2>4, <3>4, <3>5
  <2>8. ASSUME NEW t \in DOMAIN slices, NEW u \in DOMAIN slices \ {t}
        PROVE  slices[t] \cap slices[u] = {}
    <3>1. inside(t) \cap inside(u) = {}
      <4>1. t \in Nat /\ u \in Nat /\ t # u
        BY <2>3, <2>8
      <4>2. t < u \/ u < t
        BY <4>1
      <4> HIDE DEF inside, slices
      <4> QED
        BY <2>7, <2>8, <4>2
    <3> HIDE DEF inside, slices
    <3>2. slices[t] \in {{}, inside(t)} /\ slices[u] \in {{}, inside(u)}
      BY <2>5, <2>8
    <3> QED
      BY <3>1, <3>2
  <2>9. ASSUME NEW s \in Samples(threads), start * S <= at(s), at(s) < end * S
        PROVE  (at(s) - start * S) % (I * S) # 0
                 <=> \E t \in DOMAIN slices : s \in inside(t)
    <3> DEFINE x == at(s)
    <3>1. x \in Nat /\ start * S <= x /\ x < end * S
      BY <2>4, <2>9
    <3>2. \A t : s \in inside(t) <=> t * S < x /\ x < (t + I) * S
      OBVIOUS
    <3> HIDE DEF x, inside, end, slices
    <3>3. (x - start * S) % (I * S) # 0 <=>
            \E t \in Nat : /\ start <= t /\ t < end /\ (t - start) % I = 0
                           /\ t * S < x /\ x < (t + I) * S
      BY <2>1, <2>2, <3>1, WithinOne
    <3>4. (x - start * S) % (I * S) # 0 <=> \E t \in DOMAIN slices : s \in inside(t)
      BY <2>3, <3>2, <3>3
    <3> QED
      BY <3>4 DEF x
  <2>10. \A t \in DOMAIN slices :
           /\ slices[t] \in {{}, inside(t)}
           /\ slices[t] = {} <=> Cardinality(inside(t)) < min_rsptime_samples
           /\ \A other \in DOMAIN slices \ {t} : slices[t] \cap slices[other] = {}
    <3> HIDE DEF inside, slices
    <3> QED
      BY <2>5, <2>6, <2>8
  <2>11. \A s \in Samples(threads) :
           start * S <= at(s) /\ at(s) < end * S =>
             ((at(s) - start * S) % (I * S) # 0
                <=> \E t \in DOMAIN slices : s \in inside(t))
    BY <2>9
  <2> QED
    BY <2>10, <2>11 DEF threads, I, start, S
<1>2. InputKept => EachSampleOnce
  BY <1>1 DEF InputKept, EachSampleOnce
<1> QED
  BY <1>2, InputInit, InputNext, PTL DEF Spec
=============================================================================
