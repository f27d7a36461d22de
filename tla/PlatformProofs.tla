--------------------------- MODULE PlatformProofs ----------------------------
(* Proofs about the parts that stand by themselves: the creation of accounts,*)
(* the pricing engine, provider credentials and system updates.              *)
EXTENDS Accounts, Pricing, Credentials, SystemUpdate, FiniteSetTheorems, TLAPS

-----------------------------------------------------------------------------
(* Accounts.                                                                 *)

Account == [email : Emails, role : {"ADMIN", "USER"}, by : Attempts]
Doing == {NoAttempt, Finished, [at |-> "count"], [at |-> "email"]} \cup [at : {"insert"}, email : Emails]

(* A set-up that has begun holds the lock, and one that has counted found no *)
(* administrator: none comes before it ends.  No e-mail is given twice.      *)
SetUpsAlone ==
    \A p \in SetUps :
        /\ attempt[p].at \in {"count", "email", "insert"} => setupLock = p
        /\ attempt[p].at \in {"email", "insert"} => ~HasAdmin

AccountsInv ==
    /\ users \subseteq Account /\ IsFiniteSet(users)
    /\ attempt \in [Attempts -> Doing]
    /\ \A p \in Registrations : attempt[p].at # "count"
    /\ setupLock \in SetUps \cup {"nobody"}
    /\ SetUpsAlone
    /\ \A u, v \in users : u.role = "ADMIN" /\ v.role = "ADMIN" => u = v
    /\ \A u, v \in users : u.email = v.email => u = v

LEMMA DoingAt ==
    ASSUME NEW d \in Doing
    PROVE  /\ d.at \in {"start", "end", "count", "email", "insert"}
           /\ d.at = "insert" => d.email \in Emails
BY DEF Doing, NoAttempt, Finished

LEMMA DoingIn ==
    /\ NoAttempt \in Doing /\ NoAttempt.at = "start"
    /\ Finished \in Doing /\ Finished.at = "end"
    /\ [at |-> "count"] \in Doing /\ [at |-> "email"] \in Doing
    /\ \A e \in Emails : [at |-> "insert", email |-> e] \in Doing
BY DEF Doing, NoAttempt, Finished

LEMMA AccountsInvInit == AccountsInit => AccountsInv
<1>1. SUFFICES ASSUME AccountsInit PROVE AccountsInv
  OBVIOUS
<1>2. users = {} /\ setupLock = "nobody" /\ \A p \in Attempts : attempt[p] = NoAttempt
  BY <1>1 DEF AccountsInit
<1>3. attempt \in [Attempts -> Doing]
  BY <1>1, DoingIn DEF AccountsInit
<1>4. \A p \in Attempts : attempt[p].at = "start"
  BY <1>2, DoingIn
<1>5. SetUps \subseteq Attempts /\ Registrations \subseteq Attempts
  BY DEF Attempts
<1>6. SetUpsAlone
  BY <1>4, <1>5 DEF SetUpsAlone
<1>7. IsFiniteSet(users)
  BY <1>2, FS_EmptySet
<1> QED
  BY <1>2, <1>3, <1>4, <1>5, <1>6, <1>7 DEF AccountsInv

(* A step that leaves the accounts alone: p goes on to d, the lock stays or  *)
(* is taken or given back by p.                                              *)
LEMMA AttemptGoesOn ==
    ASSUME AccountsInv, NEW p \in Attempts, NEW d \in Doing,
           attempt' = [attempt EXCEPT ![p] = d], users' = users,
           setupLock' \in SetUps \cup {"nobody"},
           p \in Registrations => d.at # "count" /\ setupLock' = setupLock,
           \A q \in SetUps : q # p /\ setupLock = q => setupLock' = q,
           p \in SetUps =>
              /\ d.at \in {"count", "email", "insert"} => setupLock' = p
              /\ d.at \in {"email", "insert"} => ~HasAdmin
    PROVE  AccountsInv'
<1>1. attempt' \in [Attempts -> Doing] /\ attempt'[p] = d
      /\ \A q \in Attempts : q # p => attempt'[q] = attempt[q]
  BY DEF AccountsInv
<1>2. SetUps \subseteq Attempts /\ Registrations \subseteq Attempts
  BY DEF Attempts
<1>3. \A q \in Registrations : attempt'[q].at # "count"
  BY <1>1, <1>2 DEF AccountsInv
<1>4. HasAdmin' <=> HasAdmin
  BY DEF HasAdmin
<1>5. SetUpsAlone'
  BY <1>1, <1>2, <1>4 DEF AccountsInv, SetUpsAlone
<1>6. QED
  BY <1>1, <1>3, <1>5 DEF AccountsInv

LEMMA AccountCreated ==
    ASSUME AccountsInv, NEW p \in Attempts, attempt[p].at = "insert", CreateAccount(p)
    PROVE  AccountsInv'
<1>0. /\ attempt \in [Attempts -> Doing] /\ SetUps \subseteq Attempts
      /\ Registrations \subseteq Attempts /\ SetUps \cap Registrations = {} /\ "nobody" \notin SetUps
  BY AccountsAssumption DEF AccountsInv, Attempts
<1>1. attempt' = [attempt EXCEPT ![p] = Finished]
      /\ setupLock' = IF setupLock = p THEN "nobody" ELSE setupLock
  BY DEF CreateAccount, Ends
<1>2. CASE users' = users
  <2>1. setupLock' \in SetUps \cup {"nobody"}
        /\ \A q \in SetUps : q # p /\ setupLock = q => setupLock' = q
    BY <1>1 DEF AccountsInv
  <2>2. p \in Registrations => setupLock' = setupLock
    BY <1>0, <1>1 DEF AccountsInv
  <2> QED
    BY <1>1, <1>2, <2>1, <2>2, DoingIn, AttemptGoesOn
<1>3. CASE ~Taken(attempt[p].email) /\
           users' = users \cup {[email |-> attempt[p].email,
                                 role |-> IF p \in SetUps THEN "ADMIN" ELSE "USER", by |-> p]}
  <2>1. PICK e \in Emails : e = attempt[p].email
    BY <1>0, DoingAt
  <2>2. PICK n : n = [email |-> e, role |-> IF p \in SetUps THEN "ADMIN" ELSE "USER", by |-> p]
    OBVIOUS
  <2>3. n \in Account /\ n.email = e /\ n.role = (IF p \in SetUps THEN "ADMIN" ELSE "USER")
    BY <2>2 DEF Account
  <2>4. users' = users \cup {n} /\ \A u \in users : u.email # n.email
    BY <1>3, <2>1, <2>2, <2>3 DEF Taken
  <2>5. users' \subseteq Account /\ IsFiniteSet(users')
    BY <2>3, <2>4, FS_AddElement DEF AccountsInv
  <2>6. attempt' \in [Attempts -> Doing] /\ attempt'[p].at = "end"
        /\ \A q \in Attempts : q # p => attempt'[q] = attempt[q]
    BY <1>0, <1>1, DoingIn
  <2>7. setupLock' \in SetUps \cup {"nobody"} /\ \A q \in SetUps : q # p /\ setupLock = q => setupLock' = q
    BY <1>1 DEF AccountsInv
  <2>8. p \in SetUps => setupLock = p /\ ~HasAdmin
    BY DEF AccountsInv, SetUpsAlone
  <2>9. SetUpsAlone'
    <3>1. SUFFICES ASSUME NEW q \in SetUps, q # p, attempt[q].at \in {"count", "email", "insert"}
                   PROVE  setupLock' = q /\ (attempt[q].at \in {"email", "insert"} => ~HasAdmin')
      BY <1>0, <2>6 DEF SetUpsAlone
    <3>2. setupLock = q /\ (attempt[q].at \in {"email", "insert"} => ~HasAdmin)
      BY <3>1 DEF AccountsInv, SetUpsAlone
    <3>3. p \notin SetUps
      BY <2>8, <3>1, <3>2
    <3> QED
      BY <2>3, <2>4, <2>7, <3>1, <3>2, <3>3 DEF HasAdmin
  <2>10. \A u, v \in users' : u.role = "ADMIN" /\ v.role = "ADMIN" => u = v
    BY <2>3, <2>4, <2>8 DEF AccountsInv, HasAdmin
  <2>11. \A u, v \in users' : u.email = v.email => u = v
    BY <2>4 DEF AccountsInv
  <2>12. \A q \in Registrations : attempt'[q].at # "count"
    BY <1>0, <2>6 DEF AccountsInv
  <2> QED
    BY <2>5, <2>6, <2>7, <2>9, <2>10, <2>11, <2>12 DEF AccountsInv
<1>4. QED
  BY <1>2, <1>3 DEF CreateAccount

LEMMA AccountsInvNext == AccountsInv /\ [AccountsNext]_accountsVars => AccountsInv'
<1>1. SUFFICES ASSUME AccountsInv, [AccountsNext]_accountsVars PROVE AccountsInv'
  OBVIOUS
<1>2. /\ attempt \in [Attempts -> Doing] /\ SetUps \subseteq Attempts
      /\ Registrations \subseteq Attempts /\ SetUps \cap Registrations = {} /\ "nobody" \notin SetUps
      /\ setupLock \in SetUps \cup {"nobody"} /\ SetUpsAlone
      /\ Attempts = SetUps \cup Registrations
  BY <1>1, AccountsAssumption DEF AccountsInv, Attempts
<1>3. CASE UNCHANGED accountsVars
  BY <1>1, <1>3 DEF accountsVars, AccountsInv, SetUpsAlone, HasAdmin
<1>4. ASSUME NEW p \in Attempts, BeginSetUp(p) PROVE AccountsInv'
  <2>1. PICK d \in Doing : d = [at |-> "count"]
    BY DoingIn
  <2>2. d.at = "count" /\ p \in SetUps /\ setupLock = "nobody" /\ setupLock' = p
        /\ attempt' = [attempt EXCEPT ![p] = d] /\ users' = users
    BY <1>4, <2>1 DEF BeginSetUp, SetUpIsFree
  <2> QED
    BY <1>1, <1>2, <2>2, AttemptGoesOn
<1>5. ASSUME NEW p \in Attempts, BeginRegistration(p) PROVE AccountsInv'
  <2>1. PICK d \in Doing : d = [at |-> "email"]
    BY DoingIn
  <2>2. d.at = "email" /\ p \in Registrations /\ setupLock' = setupLock
        /\ attempt' = [attempt EXCEPT ![p] = d] /\ users' = users
    BY <1>5, <2>1 DEF BeginRegistration
  <2> QED
    BY <1>1, <1>2, <2>2, AttemptGoesOn
<1>6. ASSUME NEW p \in Attempts, Ends(p), users' = users PROVE AccountsInv'
  <2>1. attempt' = [attempt EXCEPT ![p] = Finished]
        /\ setupLock' = IF setupLock = p THEN "nobody" ELSE setupLock
    BY <1>6 DEF Ends
  <2>2. setupLock' \in SetUps \cup {"nobody"}
        /\ (p \in Registrations => setupLock' = setupLock)
        /\ \A q \in SetUps : q # p /\ setupLock = q => setupLock' = q
    BY <1>2, <2>1
  <2> QED
    BY <1>1, <1>6, <2>1, <2>2, DoingIn, AttemptGoesOn
<1>7. ASSUME NEW p \in Attempts, CountAdmins(p) PROVE AccountsInv'
  <2>1. CASE Ends(p)
    BY <1>6, <1>7, <2>1 DEF CountAdmins
  <2>2. CASE ~HasAdmin /\ attempt' = [attempt EXCEPT ![p] = [at |-> "email"]] /\ setupLock' = setupLock
    <3>1. PICK d \in Doing : d = [at |-> "email"]
      BY DoingIn
    <3>2. d.at = "email" /\ attempt' = [attempt EXCEPT ![p] = d] /\ users' = users
          /\ attempt[p].at = "count"
      BY <1>7, <2>2, <3>1 DEF CountAdmins
    <3>3. p \in SetUps => setupLock' = p
      BY <1>2, <2>2, <3>2 DEF SetUpsAlone
    <3> QED
      BY <1>1, <1>2, <2>2, <3>2, <3>3, AttemptGoesOn
  <2> QED
    BY <1>7, <2>1, <2>2 DEF CountAdmins
<1>8. ASSUME NEW p \in Attempts, CheckEmail(p) PROVE AccountsInv'
  <2>1. CASE Ends(p)
    BY <1>6, <1>8, <2>1 DEF CheckEmail
  <2>2. ASSUME NEW email \in Emails, setupLock' = setupLock,
               attempt' = [attempt EXCEPT ![p] = [at |-> "insert", email |-> email]]
        PROVE  AccountsInv'
    <3>1. PICK d \in Doing : d = [at |-> "insert", email |-> email]
      BY DoingIn
    <3>2. d.at = "insert" /\ attempt' = [attempt EXCEPT ![p] = d] /\ users' = users
          /\ attempt[p].at = "email"
      BY <1>8, <2>2, <3>1 DEF CheckEmail
    <3>3. p \in SetUps => setupLock' = p /\ ~HasAdmin
      BY <1>2, <2>2, <3>2 DEF SetUpsAlone
    <3> QED
      BY <1>1, <1>2, <2>2, <3>2, <3>3, AttemptGoesOn
  <2> QED
    BY <1>8, <2>1, <2>2 DEF CheckEmail
<1>9. ASSUME NEW p \in Attempts, CreateAccount(p) PROVE AccountsInv'
  BY <1>1, <1>9, AccountCreated DEF CreateAccount
<1>10. QED
  BY <1>1, <1>3, <1>4, <1>5, <1>7, <1>8, <1>9 DEF AccountsNext

(* However many first set-ups and registrations run at once, one             *)
(* administrator is created and no e-mail is taken twice                     *)
(* (auth.service.ts:597-611, 87-245).                                        *)
THEOREM OneAdministratorIsCreated == AccountsSpec => []OneFirstAdministrator
<1>1. AccountsInv => OneFirstAdministrator
  <2>1. SUFFICES ASSUME AccountsInv PROVE OneFirstAdministrator
    OBVIOUS
  <2>2. Cardinality({u \in users : u.role = "ADMIN"}) <= 1
    <3> DEFINE A == {u \in users : u.role = "ADMIN"}
    <3>1. \A a, b \in A : a = b
      BY <2>1 DEF AccountsInv
    <3> HIDE DEF A
    <3>2. A = {} \/ \E a : A = {a}
      BY <3>1
    <3>3. Cardinality(A) = 0 \/ Cardinality(A) = 1
      BY <3>2, FS_EmptySet, FS_Singleton
    <3> QED
      BY <3>3 DEF A
  <2>3. Cardinality({u.email : u \in users}) = Cardinality(users)
    <3> DEFINE E == {u.email : u \in users}
               f == [u \in users |-> u.email]
    <3>1. f \in [users -> E] /\ (\A e \in E : \E u \in users : f[u] = e)
      OBVIOUS
    <3>2. \A u, v \in users : f[u] = f[v] => u = v
      BY <2>1 DEF AccountsInv
    <3>3. IsFiniteSet(users)
      BY <2>1 DEF AccountsInv
    <3> HIDE DEF E, f
    <3>4. f \in Bijection(users, E)
      BY <3>1, <3>2 DEF Bijection, Injection, IsInjective, Surjection
    <3>5. Cardinality(E) = Cardinality(users)
      BY <3>3, <3>4, FS_Bijection DEF ExistsBijection
    <3> QED
      BY <3>5 DEF E
  <2> QED
    BY <2>2, <2>3 DEF OneFirstAdministrator
<1>2. QED
  BY <1>1, AccountsInvInit, AccountsInvNext, PTL DEF AccountsSpec

-----------------------------------------------------------------------------
(* Pricing.                                                                  *)

(* calculateImagePrice looks the picture up in the order of PriceOfPicture,  *)
(* or refuses; it refuses nothing that gives width and height.               *)
LEMMA ImagePriceIsThePictures ==
    ASSUME NEW R \in ImageRules, NEW q \in ImageRequests
    PROVE  /\ calculateImagePrice(R, q) \in {PriceOfPicture(R, q.picture), "refused"}
           /\ q.widthHeight /\ OptionFits(R.quality, q.quality) =>
                 calculateImagePrice(R, q) = PriceOfPicture(R, q.picture)
<1> DEFINE p == q.picture
           e == EffectiveResolution(R, q)
<1>1. /\ p \in Pictures /\ q.size \in {"no", "name", "exact"}
      /\ q.resolution \in BOOLEAN /\ q.widthHeight \in BOOLEAN
  BY DEF ImageRequests
<1>2. R.resolution = NoTable \/ R.resolution \subseteq Pictures \cup {"wild"}
  BY DEF ImageRules, Tables
<1>3. p # "none" /\ p # "wild" /\ p # "refused" /\ "none" \notin Pictures \cup {"wild"}
      /\ SizeOf[p] \notin Pictures \cup {"wild"}
  BY <1>1, PricingAssumption
<1>4. e \in {p, "none", SizeOf[p]}
  BY <1>1 DEF EffectiveResolution
<1>5. R.resolution # NoTable /\ e \in R.resolution => e = p
  BY <1>2, <1>3, <1>4
<1>6. e \in R.resolution /\ R.resolution # NoTable => ByDimensions(R.resolution, p) = e
  BY <1>5 DEF ByDimensions
<1>7. CASE ~OptionFits(R.quality, q.quality)
  BY <1>7 DEF calculateImagePrice
<1>8. CASE OptionFits(R.quality, q.quality) /\ BySize(R, q)
  BY <1>8 DEF calculateImagePrice, BySize, PriceOfPicture
<1>9. CASE OptionFits(R.quality, q.quality) /\ ~BySize(R, q) /\ R.resolution = NoTable
  <2>1. calculateImagePrice(R, q) = IF R.size = NoTable THEN "base" ELSE "refused"
    BY <1>9 DEF calculateImagePrice
  <2>2. R.size # NoTable /\ q.widthHeight => SizeOf[p] \notin R.size
    BY <1>9 DEF BySize, LeadsToSize
  <2> QED
    BY <1>9, <2>1, <2>2 DEF PriceOfPicture
<1>10. CASE OptionFits(R.quality, q.quality) /\ ~BySize(R, q) /\ R.resolution # NoTable
  <2>1. calculateImagePrice(R, q) = IF e \in R.resolution THEN e
                                    ELSE IF q.widthHeight THEN ByDimensions(R.resolution, p) ELSE "refused"
    BY <1>10 DEF calculateImagePrice
  <2>2. R.size # NoTable /\ SizeOf[p] \in R.size => ~LeadsToSize(q)
    BY <1>10 DEF BySize
  <2>3. ~LeadsToSize(q) => e = "none" /\ ~q.widthHeight
    BY <1>1 DEF LeadsToSize, EffectiveResolution
  <2>4. CASE R.size # NoTable /\ SizeOf[p] \in R.size
    <3>1. e \notin R.resolution
      BY <1>2, <1>3, <1>10, <2>2, <2>3, <2>4
    <3> QED
      BY <2>1, <2>2, <2>3, <2>4, <3>1
  <2>5. CASE ~(R.size # NoTable /\ SizeOf[p] \in R.size)
    <3>1. PriceOfPicture(R, p) = ByDimensions(R.resolution, p)
      BY <1>10, <2>5 DEF PriceOfPicture
    <3> QED
      BY <1>6, <1>10, <2>1, <3>1
  <2> QED
    BY <2>4, <2>5
<1> QED
  BY <1>7, <1>8, <1>9, <1>10

(* The same of calculateVideoPrice; a tier that is named may have an entry   *)
(* of its own beside those of its clips.                                     *)
LEMMA VideoPriceIsTheClips ==
    ASSUME NEW R \in VideoRules, NEW q \in VideoRequests
    PROVE  \/ calculateVideoPrice(R, q) \in {PriceOfClip(R, q.clip), "refused"}
           \/ /\ q.resolution = "tier" /\ calculateVideoPrice(R, q) = TierOf(q.clip)
              /\ R.resolution \cap (Clips \cup {"wild"}) # {}
<1> DEFINE c == q.clip
           said == CASE q.resolution = "tier" -> TierOf(q.clip)
                  [] q.resolution = "exact" -> q.clip
                  [] q.resolution = "no" -> "none"
<1>1. c \in Clips /\ q.resolution \in {"no", "tier", "exact"} /\ q.widthHeight \in BOOLEAN
  BY DEF VideoRequests
<1>2. R.resolution = NoTable \/ R.resolution \subseteq Clips \cup Tiers \cup {"wild"}
  BY DEF VideoRules, Tables
<1>3. "none" \notin Clips \cup Tiers \cup {"wild"} /\ c # "refused"
  BY <1>1, PricingAssumption DEF Tiers
<1>4. /\ q.resolution = "tier" => said = TierOf(c)
      /\ q.resolution = "exact" => said = c
      /\ q.resolution = "no" => said = "none"
  OBVIOUS
<1>5. calculateVideoPrice(R, q) =
        IF ~OptionFits(R.quality, q.quality) \/ ~OptionFits(R.fps, q.fps) THEN "refused"
        ELSE IF R.resolution = NoTable THEN "base"
        ELSE IF said \in R.resolution THEN said
        ELSE IF q.resolution = "exact" \/ q.widthHeight THEN ByDimensionsOrTier(R.resolution, c)
        ELSE "refused"
  BY DEF calculateVideoPrice
<1> HIDE DEF said
<1>6. CASE ~OptionFits(R.quality, q.quality) \/ ~OptionFits(R.fps, q.fps)
  BY <1>5, <1>6
<1>7. CASE OptionFits(R.quality, q.quality) /\ OptionFits(R.fps, q.fps) /\ R.resolution = NoTable
  BY <1>5, <1>7 DEF PriceOfClip
<1>8. CASE OptionFits(R.quality, q.quality) /\ OptionFits(R.fps, q.fps) /\ R.resolution # NoTable
  <2>1. PriceOfClip(R, c) = ByDimensionsOrTier(R.resolution, c)
    BY <1>8 DEF PriceOfClip
  <2>2. CASE said \notin R.resolution
    BY <1>5, <1>8, <2>1, <2>2
  <2>3. CASE said \in R.resolution /\ q.resolution = "exact"
    <3>1. ByDimensionsOrTier(R.resolution, c) = c
      BY <1>3, <1>4, <2>3 DEF ByDimensionsOrTier, ByDimensions
    <3> QED
      BY <1>4, <1>5, <1>8, <2>1, <2>3, <3>1
  <2>4. CASE said \in R.resolution /\ q.resolution = "tier"
    <3>1. calculateVideoPrice(R, q) = TierOf(c) /\ TierOf(c) \in R.resolution
      BY <1>4, <1>5, <1>8, <2>4
    <3>2. CASE ByDimensions(R.resolution, c) = "refused"
      BY <2>1, <3>1, <3>2 DEF ByDimensionsOrTier
    <3>3. CASE ByDimensions(R.resolution, c) # "refused"
      <4>1. c \in R.resolution \/ "wild" \in R.resolution
        BY <3>3 DEF ByDimensions
      <4> QED
        BY <1>1, <2>4, <3>1, <4>1
    <3> QED
      BY <3>2, <3>3
  <2>5. ~(said \in R.resolution /\ q.resolution = "no")
    BY <1>2, <1>3, <1>4, <1>8
  <2> QED
    BY <1>1, <2>2, <2>3, <2>4, <2>5
<1> QED
  BY <1>6, <1>7, <1>8

QuoteInv ==
    \/ quote = NoQuote
    \/ \E R \in ImageRules, q \in ImageRequests :
          quote = [rules |-> R, picture |-> q.picture, request |-> q, outcome |-> calculateImagePrice(R, q)]
    \/ \E R \in VideoRules, q \in VideoRequests :
          quote = [rules |-> R, clip |-> q.clip, request |-> q, outcome |-> calculateVideoPrice(R, q)]

(* However a request names a picture or a clip, it is refused or gets the    *)
(* price of the picture or clip, whatever the tables, sizes and dimensions   *)
(* (pricing-engine.ts:449-610, 964-1006).                                    *)
THEOREM PriceIsOfWhatIsAsked == PricingSpec => []AnyWordingSamePrice
<1>1. PricingInit => QuoteInv
  BY DEF PricingInit, QuoteInv
<1>2. QuoteInv /\ [PricingNext]_quote => QuoteInv'
  BY DEF QuoteInv, PricingNext, QuoteImage, QuoteVideo
<1>3. QuoteInv => AnyWordingSamePrice
  <2>1. CASE quote = NoQuote
    BY <2>1 DEF NoQuote, AnyWordingSamePrice
  <2>2. ASSUME NEW R \in ImageRules, NEW q \in ImageRequests,
               quote = [rules |-> R, picture |-> q.picture, request |-> q, outcome |-> calculateImagePrice(R, q)]
        PROVE  AnyWordingSamePrice
    <3>1. /\ quote.rules = R /\ quote.request = q /\ quote.picture = q.picture
          /\ quote.outcome = calculateImagePrice(R, q) /\ "clip" \notin DOMAIN quote
      BY <2>2
    <3> QED
      BY <3>1, ImagePriceIsThePictures DEF AnyWordingSamePrice
  <2>3. ASSUME NEW R \in VideoRules, NEW q \in VideoRequests,
               quote = [rules |-> R, clip |-> q.clip, request |-> q, outcome |-> calculateVideoPrice(R, q)]
        PROVE  AnyWordingSamePrice
    <3>1. /\ quote.rules = R /\ quote.request = q /\ quote.clip = q.clip
          /\ quote.outcome = calculateVideoPrice(R, q) /\ "picture" \notin DOMAIN quote
      BY <2>3
    <3> QED
      BY <3>1, VideoPriceIsTheClips DEF AnyWordingSamePrice
  <2> QED
    BY <2>1, <2>2, <2>3 DEF QuoteInv
<1> QED
  BY <1>1, <1>2, <1>3, PTL DEF PricingSpec

-----------------------------------------------------------------------------
(* Credentials.                                                              *)

Row == [status : Statuses \cup {"GONE"}, cooling : BOOLEAN, limit : Limits]
Candidates == UNION {[C -> Limits] : C \in SUBSET Creds}
Selecting == [at : {"select"}, attempt : Nat]
Reserving == [at : {"reserve"}, attempt : Nat, rows : Candidates]
Leasing == [at : Holding, attempt : Nat, cred : Creds, token : Tokens]
Lease == [cred : Creds, left : 0..TTL]
Writing == [at : {"write"}, cred : Creds, row : Row]

CredentialTypes ==
    /\ cred \in [Creds -> Row]
    /\ call \in [Calls -> {Idle} \cup Selecting \cup Reserving \cup Leasing]
    /\ lease \in [Tokens -> {NoLease} \cup Lease]
    /\ missed \in [Calls -> 0..TTL]
    /\ editor \in {Idle} \cup Writing
    /\ credFaults \in Nat /\ edits \in Nat /\ credFaults + edits <= MaxDisturbances

(* No two calls hold one token, and the token of a call is in the set of its *)
(* credential for as long as the renewals it has missed leave of the lease.  *)
TokensAreOwn ==
    \A v, w \in Calls : v # w /\ call[v].at \in Holding /\ call[w].at \in Holding =>
        call[v].token # call[w].token
Kept(w) ==
    call[w].at \in Holding =>
        /\ lease[call[w].token] # NoLease => lease[call[w].token].cred = call[w].cred
        /\ missed[w] < TTL => lease[call[w].token] \in Lease /\ lease[call[w].token].left >= TTL - missed[w]
Leaked == {t \in Tokens : lease[t] # NoLease /\ \A w \in Calls : ~Holds(w, t)}

CredentialsInv ==
    /\ CredentialTypes
    /\ TokensAreOwn
    /\ \A w \in Calls : Kept(w)
    /\ Cardinality(Leaked) <= credFaults

CallTypes == {Idle} \cup Selecting \cup Reserving \cup Leasing

LEMMA CallAt ==
    ASSUME NEW d \in CallTypes
    PROVE  /\ d \in Leasing <=> d.at \in Holding
           /\ d.at = "reserve" <=> d \in Reserving
           /\ d.at = "select" <=> d \in Selecting
           /\ d \in Leasing => d.cred \in Creds /\ d.token \in Tokens /\ d.attempt \in Nat
           /\ d \in Reserving => d.rows \in Candidates /\ d.attempt \in Nat
           /\ d \in Selecting => d.attempt \in Nat
BY DEF CallTypes, Idle, Selecting, Reserving, Leasing, Holding

LEMMA LeaseIs ==
    /\ NoLease \notin Lease /\ NoLease.cred = "none" /\ "none" \notin Creds
    /\ \A l \in Lease : l.cred \in Creds /\ l.left \in 0..TTL
    /\ \A c \in Creds, n \in 0..TTL :
          [cred |-> c, left |-> n] \in Lease /\ [cred |-> c, left |-> n].cred = c /\ [cred |-> c, left |-> n].left = n
BY CredentialsAssumption DEF NoLease, Lease

LEMMA TokensAreFinite ==
    ASSUME NEW L, NEW M, L \subseteq Tokens, M \subseteq Tokens
    PROVE  /\ Cardinality(L) \in Nat /\ Cardinality(M) \in Nat
           /\ M \subseteq L => Cardinality(M) <= Cardinality(L)
           /\ \A x : M \subseteq L \cup {x} => Cardinality(M) <= Cardinality(L) + 1
<1>1. IsFiniteSet(L) /\ IsFiniteSet(M)
  BY FS_Subset, CredentialsAssumption
<1>2. Cardinality(L) \in Nat /\ Cardinality(M) \in Nat
  BY <1>1, FS_CardinalityType
<1>3. M \subseteq L => Cardinality(M) <= Cardinality(L)
  BY <1>1, FS_Subset
<1>4. ASSUME NEW x, M \subseteq L \cup {x} PROVE Cardinality(M) <= Cardinality(L) + 1
  <2>0. /\ IsFiniteSet(L \cup {x})
        /\ Cardinality(L \cup {x}) = IF x \in L THEN Cardinality(L) ELSE Cardinality(L) + 1
    BY <1>1, FS_AddElement
  <2>1. IsFiniteSet(L \cup {x}) /\ Cardinality(L \cup {x}) <= Cardinality(L) + 1
    BY <1>2, <2>0
  <2>2. Cardinality(M) <= Cardinality(L \cup {x}) /\ Cardinality(L \cup {x}) \in Nat
    BY <1>4, <2>1, FS_Subset, FS_CardinalityType
  <2> QED
    BY <1>2, <2>1, <2>2
<1> QED
  BY <1>2, <1>3, <1>4

(* The sets an injection relates: as many calls as tokens they map to.       *)
LEMMA CallsInjected ==
    ASSUME NEW W, W \subseteq Calls, NEW T, T \subseteq Tokens, NEW f \in [W -> T],
           \A v, w \in W : v # w => f[v] # f[w]
    PROVE  Cardinality(W) <= Cardinality(T) /\ Cardinality(W) \in Nat /\ Cardinality(T) \in Nat
<1>1. IsFiniteSet(T) /\ IsFiniteSet(W)
  BY FS_Subset, CredentialsAssumption
<1>2. f \in Injection(W, T)
  BY DEF Injection, IsInjective
<1> QED
  BY <1>1, <1>2, FS_Injection, FS_CardinalityType

(* A UUID that is neither stored nor held there always is.                   *)
LEMMA FreshTokenIsFresh ==
    ASSUME CredentialsInv, NEW w \in Calls, call[w].at \notin Holding
    PROVE  /\ FreshToken \in Tokens /\ lease[FreshToken] = NoLease
           /\ \A v \in Calls : ~Holds(v, FreshToken)
<1>1. ASSUME \A t \in Tokens : lease[t] # NoLease \/ \E v \in Calls : Holds(v, t) PROVE FALSE
  <2> DEFINE W == {v \in Calls : call[v].at \in Holding}
             H == {t \in Tokens : \E v \in Calls : Holds(v, t)}
             f == [v \in W |-> call[v].token]
  <2>1. W \subseteq Calls \ {w} /\ IsFiniteSet(Calls \ {w}) /\ Cardinality(Calls \ {w}) = Cardinality(Calls) - 1
    BY CredentialsAssumption, FS_RemoveElement
  <2>2. IsFiniteSet(W) /\ Cardinality(W) <= Cardinality(Calls) - 1 /\ Cardinality(W) \in Nat
    BY <2>1, FS_Subset, FS_CardinalityType
  <2>3. \A v \in W : f[v] \in H
    BY CallAt DEF CredentialsInv, CredentialTypes, CallTypes, Holds
  <2>4. \A t \in H : \E v \in W : f[v] = t
    BY DEF Holds
  <2>5. f \in [W -> H]
    BY <2>3
  <2> HIDE DEF f, W
  <2>6. f \in Surjection(W, H)
    BY <2>4, <2>5 DEF Surjection
  <2>7. IsFiniteSet(H) /\ Cardinality(H) <= Cardinality(W)
    BY <2>2, <2>6, FS_Surjection
  <2>8. IsFiniteSet(Leaked) /\ Cardinality(Leaked) \in Nat
    BY CredentialsAssumption, FS_Subset, FS_CardinalityType DEF Leaked
  <2>9. Tokens = Leaked \cup H
    BY <1>1 DEF Leaked
  <2> HIDE DEF H
  <2>10. Cardinality(Tokens) <= Cardinality(Leaked) + Cardinality(H) /\ Cardinality(H) \in Nat
    <3>1. Cardinality(Leaked \cup H) = Cardinality(Leaked) + Cardinality(H) - Cardinality(Leaked \cap H)
      BY <2>7, <2>8, FS_Union
    <3>2. Cardinality(Leaked \cap H) \in Nat
      BY <2>7, <2>8, FS_Intersection, FS_CardinalityType
    <3> QED
      BY <2>7, <2>8, <2>9, <3>1, <3>2, FS_CardinalityType
  <2>11. Cardinality(Leaked) <= credFaults /\ credFaults \in Nat /\ edits \in Nat
         /\ credFaults + edits <= MaxDisturbances
    BY DEF CredentialsInv, CredentialTypes
  <2>12. /\ Cardinality(Tokens) >= Cardinality(Calls) + MaxDisturbances
         /\ MaxDisturbances \in Nat /\ Cardinality(Tokens) \in Nat /\ Cardinality(Calls) \in Nat
    BY CredentialsAssumption, FS_CardinalityType
  <2> QED
    BY <2>2, <2>7, <2>8, <2>10, <2>11, <2>12
<1>2. \E t \in Tokens : lease[t] = NoLease /\ \A v \in Calls : ~Holds(v, t)
  BY <1>1
<1> QED
  BY <1>2 DEF FreshToken

LEMMA PurgedIs ==
    ASSUME CredentialTypes, NEW c \in Creds
    PROVE  /\ Purged(c) \in [Tokens -> {NoLease} \cup Lease]
           /\ \A t \in Tokens :
                 \/ Purged(c)[t] = lease[t]
                 \/ Purged(c)[t] = NoLease /\ lease[t] \in Lease /\ lease[t].left = 0
BY LeaseIs DEF Purged, TokensOf, Lapsed, CredentialTypes

(* A call that goes on to d, and leaves the tokens alone.                    *)
LEMMA CallGoesOn ==
    ASSUME CredentialsInv, NEW w \in Calls, NEW d \in CallTypes,
           call' = [call EXCEPT ![w] = d], CredentialTypes',
           lease' = lease, missed' = missed,
           \/ /\ d.at \in Holding => call[w].at \in Holding /\ d.cred = call[w].cred /\ d.token = call[w].token
              /\ call[w].at \in Holding => d.at \in Holding
              /\ credFaults' >= credFaults
           \/ d.at \notin Holding /\ credFaults' = credFaults + 1
    PROVE  CredentialsInv'
<1>0. CredentialTypes /\ TokensAreOwn /\ (\A v \in Calls : Kept(v)) /\ Cardinality(Leaked) <= credFaults
  BY DEF CredentialsInv
<1>1. call'[w] = d /\ \A v \in Calls : v # w => call'[v] = call[v]
  BY <1>0 DEF CredentialTypes
<1>2. d.at \in Holding => call[w].at \in Holding /\ d.cred = call[w].cred /\ d.token = call[w].token
  OBVIOUS
<1>3. TokensAreOwn'
  BY <1>0, <1>1, <1>2 DEF TokensAreOwn
<1>4. ASSUME NEW v \in Calls PROVE Kept(v)'
  BY <1>0, <1>1, <1>2 DEF Kept
<1>5. Cardinality(Leaked') <= credFaults'
  <2>0. Leaked \subseteq Tokens /\ Leaked' \subseteq Tokens /\ credFaults \in Nat /\ credFaults' \in Nat
    BY <1>0 DEF Leaked, CredentialTypes
  <2>1. CASE /\ call[w].at \in Holding => d.at \in Holding
             /\ credFaults' >= credFaults
    <3>1. Leaked' \subseteq Leaked
      BY <1>1, <1>2, <2>1 DEF Leaked, Holds
    <3> QED
      BY <1>0, <2>0, <2>1, <3>1, TokensAreFinite
  <2>2. CASE d.at \notin Holding /\ credFaults' = credFaults + 1
    <3>1. Leaked' \subseteq Leaked \cup {call[w].token}
      BY <1>1, <2>2 DEF Leaked, Holds
    <3> QED
      BY <1>0, <2>0, <2>2, <3>1, TokensAreFinite
  <2> QED
    BY <2>1, <2>2
<1>6. QED
  BY <1>3, <1>4, <1>5 DEF CredentialsInv

(* The administrator and the end of a cooldown.                              *)
LEMMA CallsGoOnAlike ==
    ASSUME CredentialsInv, call' = call, CredentialTypes', lease' = lease, missed' = missed,
           credFaults' = credFaults
    PROVE  CredentialsInv'
<1>1. TokensAreOwn'
  BY DEF CredentialsInv, TokensAreOwn
<1>2. \A v \in Calls : Kept(v)'
  BY DEF CredentialsInv, Kept
<1>3. Leaked' = Leaked
  BY DEF Leaked, Holds
<1> QED
  BY <1>1, <1>2, <1>3 DEF CredentialsInv

LEMMA CallStays ==
    ASSUME CredentialTypes, NEW w \in Calls, call[w].at \in Holding
    PROVE  /\ call[w] \in Leasing
           /\ \A at \in Holding : Goes(w, at) =>
                \E d \in CallTypes : /\ call' = [call EXCEPT ![w] = d] /\ d.at = at
                                     /\ d.cred = call[w].cred /\ d.token = call[w].token
           /\ ThenEnds(w) =>
                \E d \in CallTypes : /\ call' = [call EXCEPT ![w] = d] /\ d.at \in Holding
                                     /\ d.cred = call[w].cred /\ d.token = call[w].token
<1>0. call \in [Calls -> CallTypes]
  BY DEF CredentialTypes, CallTypes
<1>1. call[w] \in Leasing
  BY <1>0, CallAt
<1>2. PICK l \in Leasing : l = call[w]
  BY <1>1
<1>3. ASSUME NEW at \in Holding, Goes(w, at)
      PROVE  \E d \in CallTypes : /\ call' = [call EXCEPT ![w] = d] /\ d.at = at
                                  /\ d.cred = call[w].cred /\ d.token = call[w].token
  <2>1. [l EXCEPT !.at = at] \in Leasing /\ [l EXCEPT !.at = at].at = at
        /\ [l EXCEPT !.at = at].cred = l.cred /\ [l EXCEPT !.at = at].token = l.token
    BY DEF Leasing
  <2>2. call' = [call EXCEPT ![w] = [l EXCEPT !.at = at]]
    BY <1>0, <1>2, <1>3 DEF Goes
  <2> QED
    BY <1>2, <2>1, <2>2 DEF CallTypes
<1>4. ASSUME ThenEnds(w)
      PROVE  \E d \in CallTypes : /\ call' = [call EXCEPT ![w] = d] /\ d.at \in Holding
                                  /\ d.cred = call[w].cred /\ d.token = call[w].token
  <2>1. PICK d : d = [at |-> "release", attempt |-> RetryAttempts, cred |-> call[w].cred, token |-> call[w].token]
    OBVIOUS
  <2>2. d \in Leasing /\ d.at = "release" /\ d.cred = call[w].cred /\ d.token = call[w].token
    BY <1>1, <2>1, CredentialsAssumption DEF Leasing, Holding
  <2>3. call' = [call EXCEPT ![w] = d]
    BY <1>4, <2>1 DEF ThenEnds
  <2> QED
    BY <2>2, <2>3 DEF CallTypes, Holding
<1> QED
  BY <1>1, <1>3, <1>4

LEMMA RowMarked ==
    ASSUME CredentialTypes, NEW c \in Creds, NEW status \in Statuses \cup {"GONE"}, NEW cooling \in BOOLEAN,
           Marked(c, status, cooling)
    PROVE  cred' \in [Creds -> Row]
<1>1. PICK r \in Row : r = cred[c]
  BY DEF CredentialTypes
<1>2. [r EXCEPT !.status = status, !.cooling = cooling] \in Row
  BY DEF Row
<1> QED
  BY <1>1, <1>2 DEF Marked, CredentialTypes

(* A call that gets a lease: the token is nobody else's.                     *)
LEMMA LeaseGiven ==
    ASSUME CredentialsInv, NEW w \in Calls, call[w].at = "reserve", NEW c \in Creds,
           NEW t \in Tokens, lease[t] = NoLease, \A v \in Calls : ~Holds(v, t),
           lease' = [Purged(c) EXCEPT ![t] = [cred |-> c, left |-> TTL]],
           NEW d \in Leasing, d.cred = c, d.token = t, call' = [call EXCEPT ![w] = d],
           missed' = [missed EXCEPT ![w] = 0],
           cred' = cred, editor' = editor, credFaults' = credFaults, edits' = edits
    PROVE  CredentialsInv'
<1>0. CredentialTypes /\ TokensAreOwn /\ (\A v \in Calls : Kept(v)) /\ Cardinality(Leaked) <= credFaults
  BY DEF CredentialsInv
<1>1. PICK l \in Lease : l = [cred |-> c, left |-> TTL] /\ l.cred = c /\ l.left = TTL
  <2>1. \E n \in 0..TTL : n = TTL
    BY DEF TTL
  <2>2. PICK n \in 0..TTL : n = TTL
    BY <2>1
  <2>3. [cred |-> c, left |-> n] \in Lease /\ [cred |-> c, left |-> n].cred = c /\ [cred |-> c, left |-> n].left = n
    BY LeaseIs
  <2> QED
    BY <2>2, <2>3
<1>2. lease' = [Purged(c) EXCEPT ![t] = l]
  BY <1>1
<1>3. /\ lease' \in [Tokens -> {NoLease} \cup Lease] /\ lease'[t] = l
      /\ \A u \in Tokens : u # t => lease'[u] = Purged(c)[u]
  BY <1>0, <1>2, PurgedIs
<1>4. call' \in [Calls -> CallTypes] /\ call'[w] = d /\ \A v \in Calls : v # w => call'[v] = call[v]
  BY <1>0 DEF CredentialTypes, CallTypes
<1>5. missed' \in [Calls -> 0..TTL] /\ missed'[w] = 0 /\ \A v \in Calls : v # w => missed'[v] = missed[v]
  BY <1>0 DEF CredentialTypes, TTL
<1>6. CredentialTypes'
  BY <1>0, <1>3, <1>4, <1>5 DEF CredentialTypes, CallTypes
<1>7. \A v \in Calls : v # w /\ call[v].at \in Holding => call[v].token # t /\ call[v].token \in Tokens
  BY <1>0, CallAt DEF Holds, CredentialTypes, CallTypes
<1>8. TokensAreOwn'
  BY <1>0, <1>4, <1>7 DEF TokensAreOwn
<1>9. ASSUME NEW v \in Calls, call'[v].at \in Holding
      PROVE  /\ lease'[call'[v].token] # NoLease => lease'[call'[v].token].cred = call'[v].cred
             /\ missed'[v] < TTL =>
                   lease'[call'[v].token] \in Lease /\ lease'[call'[v].token].left >= TTL - missed'[v]
  <2>1. CASE v = w
    BY <1>1, <1>3, <1>4, <1>5, <2>1 DEF TTL
  <2>2. CASE v # w
    <3>1. call'[v] = call[v] /\ missed'[v] = missed[v] /\ call[v].token # t /\ call[v].token \in Tokens
      BY <1>4, <1>5, <1>7, <1>9, <2>2
    <3>2. PICK u \in Tokens : u = call[v].token
      BY <3>1
    <3>3. /\ lease[u] # NoLease => lease[u].cred = call[v].cred
          /\ missed[v] < TTL => lease[u] \in Lease /\ lease[u].left >= TTL - missed[v]
      BY <1>0, <1>9, <3>1, <3>2 DEF Kept
    <3>4. missed[v] \in 0..TTL
      BY <1>0 DEF CredentialTypes
    <3>5. lease'[u] = lease[u] \/ (lease'[u] = NoLease /\ lease[u].left = 0)
      BY <1>0, <1>3, <3>1, <3>2, PurgedIs
    <3>6. missed[v] < TTL => lease'[u] = lease[u]
      BY <3>3, <3>4, <3>5 DEF TTL
    <3>7. lease'[u] # NoLease => lease'[u].cred = call[v].cred
      BY <3>3, <3>5
    <3>8. missed[v] < TTL => lease'[u] \in Lease /\ lease'[u].left >= TTL - missed[v]
      BY <3>3, <3>6
    <3> QED
      BY <3>1, <3>2, <3>7, <3>8
  <2> QED
    BY <2>1, <2>2
<1>10. Leaked' \subseteq Leaked
  <2>1. SUFFICES ASSUME NEW u \in Tokens, lease'[u] # NoLease, \A v \in Calls : ~Holds(v, u)'
                 PROVE  lease[u] # NoLease /\ \A v \in Calls : ~Holds(v, u)
    BY DEF Leaked
  <2>2. call'[w].token = t /\ call'[w].at \in Holding
    BY <1>4, CallAt DEF CallTypes
  <2>3. u # t
    BY <2>1, <2>2 DEF Holds
  <2>4. lease[u] # NoLease
    BY <1>0, <1>3, <2>1, <2>3, PurgedIs
  <2>5. ASSUME NEW v \in Calls, Holds(v, u) PROVE FALSE
    <3>1. v # w
      BY <2>5 DEF Holds, Holding
    <3>2. Holds(v, u)'
      BY <1>4, <2>5, <3>1 DEF Holds
    <3> QED
      BY <2>1, <3>2
  <2> QED
    BY <2>4, <2>5
<1>11. Cardinality(Leaked') <= credFaults'
  <2>1. Leaked \subseteq Tokens /\ Leaked' \subseteq Tokens /\ credFaults \in Nat
    BY <1>0 DEF Leaked, CredentialTypes
  <2> QED
    BY <1>0, <1>10, <2>1, TokensAreFinite
<1> QED
  BY <1>6, <1>8, <1>9, <1>11 DEF CredentialsInv, Kept

(* A call that holds no lease afterwards, when tokens that lapsed, or its    *)
(* own, are taken out of a set.                                              *)
LEMMA LeaseGone ==
    ASSUME CredentialsInv, NEW w \in Calls, NEW d \in CallTypes, d.at \notin Holding,
           call' = [call EXCEPT ![w] = d],
           lease' \in [Tokens -> {NoLease} \cup Lease],
           \A t \in Tokens :
              \/ lease'[t] = lease[t] /\ ~Holds(w, t)
              \/ lease'[t] = NoLease /\ Holds(w, t)
              \/ lease'[t] = NoLease /\ lease[t] \in Lease /\ lease[t].left = 0,
           missed' = missed, cred' = cred, editor' = editor, credFaults' = credFaults, edits' = edits
    PROVE  CredentialsInv'
<1>0. CredentialTypes /\ TokensAreOwn /\ (\A v \in Calls : Kept(v)) /\ Cardinality(Leaked) <= credFaults
  BY DEF CredentialsInv
<1>1. call' \in [Calls -> CallTypes] /\ call'[w] = d /\ \A v \in Calls : v # w => call'[v] = call[v]
  BY <1>0 DEF CredentialTypes, CallTypes
<1>2. CredentialTypes'
  BY <1>0, <1>1 DEF CredentialTypes, CallTypes
<1>3. TokensAreOwn'
  BY <1>0, <1>1 DEF TokensAreOwn
<1>4. ASSUME NEW v \in Calls, call'[v].at \in Holding
      PROVE  /\ lease'[call'[v].token] # NoLease => lease'[call'[v].token].cred = call'[v].cred
             /\ missed'[v] < TTL =>
                   lease'[call'[v].token] \in Lease /\ lease'[call'[v].token].left >= TTL - missed'[v]
  <2>1. v # w /\ call'[v] = call[v] /\ missed'[v] = missed[v]
    BY <1>1, <1>4
  <2>2. PICK u \in Tokens : u = call[v].token
    BY <1>0, <1>4, <2>1, CallAt DEF CredentialTypes, CallTypes
  <2>3. /\ lease[u] # NoLease => lease[u].cred = call[v].cred
        /\ missed[v] < TTL => lease[u] \in Lease /\ lease[u].left >= TTL - missed[v]
    BY <1>0, <1>4, <2>1, <2>2 DEF Kept
  <2>4. missed[v] \in 0..TTL
    BY <1>0 DEF CredentialTypes
  <2>5. ~Holds(w, u)
    BY <1>0, <1>4, <2>1, <2>2 DEF Holds, TokensAreOwn
  <2>6. lease'[u] = lease[u] \/ (lease'[u] = NoLease /\ lease[u].left = 0)
    BY <2>5
  <2>7. missed[v] < TTL => lease'[u] = lease[u]
    BY <2>3, <2>4, <2>6 DEF TTL
  <2>8. lease'[u] # NoLease => lease'[u].cred = call[v].cred
    BY <2>3, <2>6
  <2>9. missed[v] < TTL => lease'[u] \in Lease /\ lease'[u].left >= TTL - missed[v]
    BY <2>3, <2>7
  <2> QED
    BY <2>1, <2>2, <2>8, <2>9
<1>5. Leaked' \subseteq Leaked
  <2>1. SUFFICES ASSUME NEW u \in Tokens, lease'[u] # NoLease, \A v \in Calls : ~Holds(v, u)'
                 PROVE  lease[u] # NoLease /\ \A v \in Calls : ~Holds(v, u)
    BY DEF Leaked
  <2>2. lease[u] # NoLease /\ ~Holds(w, u)
    BY <2>1
  <2> QED
    BY <1>1, <2>1, <2>2 DEF Holds
<1>6. Cardinality(Leaked') <= credFaults'
  <2>1. Leaked \subseteq Tokens /\ Leaked' \subseteq Tokens /\ credFaults \in Nat
    BY <1>0 DEF Leaked, CredentialTypes
  <2> QED
    BY <1>0, <1>5, <2>1, TokensAreFinite
<1> QED
  BY <1>2, <1>3, <1>4, <1>6 DEF CredentialsInv, Kept

(* The first of the candidates: Given decides, and nothing else.             *)
GivenLease(w, c) ==
    \E t \in Tokens, d \in Leasing :
        /\ lease[t] = NoLease /\ \A v \in Calls : ~Holds(v, t)
        /\ lease' = [Purged(c) EXCEPT ![t] = [cred |-> c, left |-> TTL]]
        /\ d.cred = c /\ d.token = t /\ d.at = "call" /\ call' = [call EXCEPT ![w] = d]
        /\ missed' = [missed EXCEPT ![w] = 0]
PassedOver(w, c) ==
    \E d \in {Idle} \cup Reserving :
        /\ call' = [call EXCEPT ![w] = d]
        /\ d = Idle => DOMAIN call[w].rows = {c}
        /\ d # Idle => d.at = "reserve" /\ DOMAIN d.rows = DOMAIN call[w].rows \ {c}
        /\ lease' = Purged(c) /\ missed' = missed

LEMMA ReserveDoes ==
    ASSUME CredentialsInv, NEW w \in Calls, tryReserveLease(w)
    PROVE  \E c \in Creds :
              /\ c \in DOMAIN call[w].rows /\ call[w].rows[c] \in Nat
              /\ \/ Given(w, c) /\ GivenLease(w, c)
                 \/ ~Given(w, c) /\ PassedOver(w, c)
<1>0. call[w].at = "reserve" /\ CredentialTypes /\ call \in [Calls -> CallTypes]
  BY DEF tryReserveLease, CredentialsInv, CredentialTypes, CallTypes
<1>1. call[w] \in Reserving /\ call[w].attempt \in Nat
  BY <1>0, CallAt
<1>2. PICK C \in SUBSET Creds : call[w].rows \in [C -> Limits]
  BY <1>1 DEF Reserving, Candidates
<1>3. PICK c \in Foremost(call[w].rows) :
          IF Given(w, c)
          THEN /\ lease' = [Purged(c) EXCEPT ![FreshToken] = [cred |-> c, left |-> TTL]]
               /\ call' = [call EXCEPT ![w] =
                      [at |-> "call", attempt |-> call[w].attempt, cred |-> c, token |-> FreshToken]]
               /\ missed' = [missed EXCEPT ![w] = 0]
          ELSE LET rest == DOMAIN call[w].rows \ {c}
               IN  /\ lease' = Purged(c)
                   /\ call' = [call EXCEPT ![w] =
                          IF rest = {} THEN Idle
                          ELSE [call[w] EXCEPT !.rows = [d \in rest |-> call[w].rows[d]]]]
                   /\ missed' = missed
  BY DEF tryReserveLease
<1>4. c \in C /\ c \in Creds /\ c \in DOMAIN call[w].rows /\ call[w].rows[c] \in Nat
  BY <1>2, <1>3, CredentialsAssumption DEF Foremost
<1>5. CASE Given(w, c)
  <2>1. call[w].at \notin Holding
    BY <1>0 DEF Holding
  <2>2. PICK t \in Tokens : t = FreshToken /\ lease[t] = NoLease /\ \A v \in Calls : ~Holds(v, t)
    BY <2>1, FreshTokenIsFresh
  <2>3. PICK d : d = [at |-> "call", attempt |-> call[w].attempt, cred |-> c, token |-> t]
    OBVIOUS
  <2>4. d \in Leasing /\ d.cred = c /\ d.token = t /\ d.at = "call"
    BY <1>1, <1>4, <2>3 DEF Leasing, Holding
  <2>5. GivenLease(w, c)
    BY <1>3, <1>5, <2>2, <2>3, <2>4 DEF GivenLease
  <2> QED
    BY <1>4, <1>5, <2>5
<1>6. CASE ~Given(w, c)
  <2> DEFINE rest == DOMAIN call[w].rows \ {c}
             left == [d \in rest |-> call[w].rows[d]]
  <2>1. lease' = Purged(c) /\ missed' = missed
        /\ call' = [call EXCEPT ![w] = IF rest = {} THEN Idle ELSE [call[w] EXCEPT !.rows = left]]
    BY <1>3, <1>6
  <2>2. CASE rest = {}
    <3>1. call' = [call EXCEPT ![w] = Idle] /\ DOMAIN call[w].rows = {c}
      BY <1>4, <2>1, <2>2
    <3>2. PassedOver(w, c)
      BY <2>1, <3>1 DEF PassedOver
    <3> QED
      BY <1>4, <1>6, <3>2
  <2>3. CASE rest # {}
    <3>1. left \in Candidates /\ DOMAIN left = rest
      <4>1. rest \in SUBSET Creds /\ left \in [rest -> Limits]
        BY <1>2
      <4> HIDE DEF left, rest
      <4> QED
        BY <4>1 DEF Candidates
    <3> HIDE DEF left
    <3>2. PICK r \in Reserving : r = call[w]
      BY <1>1
    <3>3. PICK d \in Reserving : d = [r EXCEPT !.rows = left] /\ d.at = "reserve" /\ d.rows = left
      <4>1. [r EXCEPT !.rows = left] \in Reserving /\ [r EXCEPT !.rows = left].at = "reserve"
            /\ [r EXCEPT !.rows = left].rows = left
        BY <3>1 DEF Reserving
      <4> QED
        BY <4>1
    <3>4. call' = [call EXCEPT ![w] = d] /\ d # Idle
      BY <2>1, <2>3, <3>2, <3>3 DEF Idle
    <3>5. PassedOver(w, c)
      BY <2>1, <3>1, <3>3, <3>4 DEF PassedOver
    <3> QED
      BY <1>4, <1>6, <3>5
  <2> QED
    BY <2>2, <2>3
<1> QED
  BY <1>5, <1>6

LEMMA ReserveKeeps ==
    ASSUME CredentialsInv, NEW w \in Calls, tryReserveLease(w)
    PROVE  CredentialsInv'
<1>0. call[w].at = "reserve" /\ CredentialTypes
      /\ cred' = cred /\ editor' = editor /\ credFaults' = credFaults /\ edits' = edits
  BY DEF tryReserveLease, CredentialsInv
<1>1. PICK c \in Creds :
              \/ Given(w, c) /\ GivenLease(w, c)
              \/ ~Given(w, c) /\ PassedOver(w, c)
  BY ReserveDoes
<1>2. CASE GivenLease(w, c)
  <2>1. PICK t \in Tokens, d \in Leasing :
        /\ lease[t] = NoLease /\ \A v \in Calls : ~Holds(v, t)
        /\ lease' = [Purged(c) EXCEPT ![t] = [cred |-> c, left |-> TTL]]
        /\ d.cred = c /\ d.token = t /\ d.at = "call" /\ call' = [call EXCEPT ![w] = d]
        /\ missed' = [missed EXCEPT ![w] = 0]
    BY <1>2 DEF GivenLease
  <2> QED
    BY <1>0, <2>1, LeaseGiven
<1>3. CASE PassedOver(w, c)
  <2>1. PICK d \in {Idle} \cup Reserving : call' = [call EXCEPT ![w] = d] /\ lease' = Purged(c) /\ missed' = missed
    BY <1>3 DEF PassedOver
  <2>2. d \in CallTypes /\ d.at \notin Holding
    BY <2>1 DEF CallTypes, Reserving, Idle, Holding
  <2>3. \A t \in Tokens : ~Holds(w, t)
    BY <1>0 DEF Holds, Holding
  <2> QED
    BY <1>0, <2>1, <2>2, <2>3, PurgedIs, LeaseGone
<1> QED
  BY <1>1, <1>2, <1>3

LEMMA TickKeeps ==
    ASSUME CredentialsInv, NEW Late \in SUBSET {w \in Calls : call[w].at \in Holding}, Tick(Late)
    PROVE  CredentialsInv'
<1>0. CredentialTypes /\ TokensAreOwn /\ (\A v \in Calls : Kept(v)) /\ Cardinality(Leaked) <= credFaults
  BY DEF CredentialsInv
<1> DEFINE aged == [t \in Tokens |->
            IF lease[t] = NoLease THEN NoLease
            ELSE IF \E w \in Calls : Holds(w, t) /\ Renews(w, Late) THEN [lease[t] EXCEPT !.left = TTL]
            ELSE IF lease[t].left > 0 THEN [lease[t] EXCEPT !.left = @ - 1]
            ELSE lease[t]]
<1>1. /\ lease' = [t \in Tokens |->
               IF aged[t] # NoLease /\ \A u \in TokensOf(aged[t].cred) : aged[u].left = 0
               THEN NoLease ELSE aged[t]]
      /\ missed' = [w \in Calls |->
               IF call[w].at \notin Holding \/ Renews(w, Late) THEN 0
               ELSE IF missed[w] < TTL THEN missed[w] + 1 ELSE TTL]
      /\ Late # {} => credFaults + edits < MaxDisturbances
      /\ credFaults' = IF Late # {} THEN credFaults + 1 ELSE credFaults
      /\ cred' = cred /\ call' = call /\ editor' = editor /\ edits' = edits
  BY DEF Tick
<1>2. ASSUME NEW t \in Tokens
      PROVE  /\ aged[t] \in {NoLease} \cup Lease
             /\ lease[t] = NoLease => aged[t] = NoLease
             /\ lease[t] # NoLease =>
                  /\ aged[t] \in Lease /\ aged[t].cred = lease[t].cred
                  /\ \/ aged[t].left = TTL /\ \E w \in Calls : Holds(w, t) /\ Renews(w, Late)
                     \/ aged[t].left = (IF lease[t].left > 0 THEN lease[t].left - 1 ELSE lease[t].left)
                        /\ ~\E w \in Calls : Holds(w, t) /\ Renews(w, Late)
  <2>1. CASE lease[t] = NoLease
    BY <2>1, LeaseIs
  <2>2. CASE lease[t] # NoLease
    <3>1. PICK l \in Lease : l = lease[t]
      BY <1>0, <2>2 DEF CredentialTypes
    <3>2. l.left \in 0..TTL /\ l.cred \in Creds
      BY LeaseIs
    <3>3. CASE \E w \in Calls : Holds(w, t) /\ Renews(w, Late)
      <4>1. aged[t] = [l EXCEPT !.left = TTL]
        BY <2>2, <3>1, <3>3
      <4>2. [l EXCEPT !.left = TTL] \in Lease /\ [l EXCEPT !.left = TTL].left = TTL
            /\ [l EXCEPT !.left = TTL].cred = l.cred
        BY DEF Lease, TTL
      <4> QED
        BY <2>2, <3>1, <3>3, <4>1, <4>2
    <3>4. CASE ~(\E w \in Calls : Holds(w, t) /\ Renews(w, Late)) /\ l.left > 0
      <4>1. aged[t] = [l EXCEPT !.left = l.left - 1]
        BY <2>2, <3>1, <3>4
      <4>2. [l EXCEPT !.left = l.left - 1] \in Lease /\ [l EXCEPT !.left = l.left - 1].left = l.left - 1
            /\ [l EXCEPT !.left = l.left - 1].cred = l.cred
        BY <3>2, <3>4 DEF Lease, TTL
      <4> QED
        BY <2>2, <3>1, <3>4, <4>1, <4>2
    <3>5. CASE ~(\E w \in Calls : Holds(w, t) /\ Renews(w, Late)) /\ ~(l.left > 0)
      <4>1. aged[t] = l
        BY <2>2, <3>1, <3>5
      <4> QED
        BY <2>2, <3>1, <3>5, <4>1
    <3> QED
      BY <3>3, <3>4, <3>5
  <2> QED
    BY <2>1, <2>2
<1> HIDE DEF aged
<1>3. lease' \in [Tokens -> {NoLease} \cup Lease]
  BY <1>1, <1>2
<1>4. missed' \in [Calls -> 0..TTL]
  BY <1>0, <1>1 DEF CredentialTypes, TTL
<1>5. CredentialTypes'
  <2>1. credFaults \in Nat /\ edits \in Nat /\ credFaults + edits <= MaxDisturbances /\ MaxDisturbances \in Nat
    BY <1>0, CredentialsAssumption DEF CredentialTypes
  <2>2. credFaults' \in Nat /\ edits' \in Nat /\ credFaults' + edits' <= MaxDisturbances
    BY <1>1, <2>1
  <2>3. cred' \in [Creds -> Row] /\ editor' \in {Idle} \cup Writing
        /\ call' \in [Calls -> {Idle} \cup Selecting \cup Reserving \cup Leasing]
    BY <1>0, <1>1 DEF CredentialTypes, Row
  <2> QED
    BY <1>3, <1>4, <2>2, <2>3 DEF CredentialTypes
<1>6. TokensAreOwn'
  BY <1>0, <1>1 DEF TokensAreOwn
<1>7. ASSUME NEW v \in Calls, call[v].at \in Holding
      PROVE  /\ lease'[call[v].token] # NoLease => lease'[call[v].token].cred = call[v].cred
             /\ missed'[v] < TTL =>
                   lease'[call[v].token] \in Lease /\ lease'[call[v].token].left >= TTL - missed'[v]
  <2>1. PICK t \in Tokens : t = call[v].token
    BY <1>0, <1>7, CallAt DEF CredentialTypes, CallTypes
  <2>2. Holds(v, t) /\ \A w \in Calls : Holds(w, t) => w = v
    BY <1>0, <1>7, <2>1 DEF Holds, TokensAreOwn
  <2>3. missed[v] \in 0..TTL /\ missed'[v] \in 0..TTL
    BY <1>0, <1>4 DEF CredentialTypes
  <2>4. /\ lease[t] # NoLease => lease[t].cred = call[v].cred
        /\ missed[v] < TTL => lease[t] \in Lease /\ lease[t].left >= TTL - missed[v]
    BY <1>0, <1>7, <2>1 DEF Kept
  <2>5. lease'[t] # NoLease => lease'[t].cred = call[v].cred
    BY <1>1, <1>2, <2>4
  <2>6. ASSUME missed'[v] < TTL
        PROVE  aged[t] \in Lease /\ aged[t].left >= TTL - missed'[v] /\ aged[t].left > 0
    <3>1. CASE Renews(v, Late)
      <4>1. lease[t] # NoLease /\ missed'[v] = 0
        BY <1>1, <2>1, <3>1 DEF Renews
      <4> QED
        BY <1>2, <2>2, <3>1, <4>1 DEF TTL
    <3>2. CASE ~Renews(v, Late)
      <4>1. missed'[v] = missed[v] + 1 /\ missed[v] + 1 < TTL
        BY <1>1, <1>7, <2>3, <2>6, <3>2 DEF TTL
      <4>2. lease[t] \in Lease /\ lease[t].left >= TTL - missed[v] /\ lease[t].left \in 0..TTL
        BY <2>3, <2>4, <4>1, LeaseIs DEF TTL
      <4>3. lease[t] # NoLease /\ ~\E w \in Calls : Holds(w, t) /\ Renews(w, Late)
        BY <2>2, <3>2, <4>2, LeaseIs
      <4>4. aged[t] \in Lease
            /\ aged[t].left = IF lease[t].left > 0 THEN lease[t].left - 1 ELSE lease[t].left
        BY <1>2, <4>3
      <4>5. lease[t].left > 0 /\ lease[t].left - 1 >= TTL - (missed[v] + 1)
        BY <2>3, <4>1, <4>2 DEF TTL
      <4>6. aged[t].left = lease[t].left - 1
        BY <4>4, <4>5
      <4> QED
        BY <2>3, <4>1, <4>2, <4>4, <4>5, <4>6 DEF TTL
    <3> QED
      BY <3>1, <3>2
  <2>7. ASSUME missed'[v] < TTL PROVE lease'[t] = aged[t]
    <3>1. aged[t] \in Lease /\ aged[t].left > 0
      BY <2>6, <2>7
    <3>2. lease[t] # NoLease /\ aged[t].cred = lease[t].cred
      BY <1>2, <3>1, LeaseIs
    <3>3. t \in TokensOf(aged[t].cred)
      BY <3>2 DEF TokensOf
    <3>4. aged[t].left # 0
      BY <3>1
    <3> QED
      BY <1>1, <3>3, <3>4
  <2> QED
    BY <2>1, <2>5, <2>6, <2>7
<1>8. \A v \in Calls : Kept(v)'
  BY <1>1, <1>7 DEF Kept
<1>9. Leaked' \subseteq Leaked
  BY <1>1, <1>2 DEF Leaked, Holds
<1>10. Cardinality(Leaked') <= credFaults'
  <2>1. Leaked \subseteq Tokens /\ Leaked' \subseteq Tokens /\ credFaults \in Nat /\ credFaults' \in Nat
    BY <1>0, <1>5 DEF Leaked, CredentialTypes
  <2>2. credFaults <= credFaults'
    BY <1>1, <2>1
  <2> QED
    BY <1>0, <1>9, <2>1, <2>2, TokensAreFinite
<1> QED
  BY <1>5, <1>6, <1>8, <1>10 DEF CredentialsInv

LEMMA ReleaseKeeps ==
    ASSUME CredentialsInv, NEW w \in Calls, release(w)
    PROVE  CredentialsInv'
<1>0. /\ CredentialTypes /\ call \in [Calls -> CallTypes] /\ call[w].at = "release" /\ call[w].at \in Holding
      /\ lease' = [lease EXCEPT ![call[w].token] = NoLease]
      /\ missed' = missed /\ cred' = cred /\ editor' = editor /\ credFaults' = credFaults /\ edits' = edits
  BY DEF release, CredentialsInv, CredentialTypes, CallTypes, Holding
<1>1. call[w].token \in Tokens /\ call[w].attempt \in Nat
  BY <1>0, CallAt
<1>2. PICK t \in Tokens : t = call[w].token
  BY <1>1
<1>3. PICK d : d = IF call[w].attempt < RetryAttempts THEN [at |-> "select", attempt |-> call[w].attempt + 1]
                   ELSE Idle
  OBVIOUS
<1>4. d \in CallTypes /\ d.at \notin Holding
  BY <1>1, <1>3 DEF CallTypes, Selecting, Idle, Holding
<1>5. call' = [call EXCEPT ![w] = d]
  BY <1>3 DEF release
<1>6. lease' \in [Tokens -> {NoLease} \cup Lease] /\ lease'[t] = NoLease
      /\ \A u \in Tokens : u # t => lease'[u] = lease[u]
  BY <1>0, <1>2 DEF CredentialTypes
<1>7. \A u \in Tokens : Holds(w, u) <=> u = t
  BY <1>0, <1>2 DEF Holds
<1> QED
  BY <1>0, <1>4, <1>5, <1>6, <1>7, LeaseGone

LEMMA CallStepKeeps ==
    ASSUME CredentialsInv, NEW w \in Calls, CallStep(w) \/ Fault(w)
    PROVE  CredentialsInv'
<1>0. CredentialTypes /\ call \in [Calls -> CallTypes]
  BY DEF CredentialsInv, CredentialTypes, CallTypes
<1>1. ASSUME NEW d \in CallTypes, call' = [call EXCEPT ![w] = d],
             cred' \in [Creds -> Row], lease' = lease, missed' = missed, editor' = editor, edits' = edits,
             \/ /\ d.at \in Holding => call[w].at \in Holding /\ d.cred = call[w].cred /\ d.token = call[w].token
                /\ call[w].at \in Holding => d.at \in Holding
                /\ credFaults' = credFaults
             \/ /\ \/ d.at \notin Holding
                   \/ /\ d.at \in Holding /\ call[w].at \in Holding
                      /\ d.cred = call[w].cred /\ d.token = call[w].token
                /\ credFaults + edits < MaxDisturbances /\ credFaults' = credFaults + 1
      PROVE  CredentialsInv'
  <2>1. credFaults \in Nat /\ edits \in Nat /\ MaxDisturbances \in Nat /\ credFaults + edits <= MaxDisturbances
    BY <1>0, CredentialsAssumption DEF CredentialTypes
  <2>2. credFaults' \in Nat /\ edits' \in Nat /\ credFaults' + edits' <= MaxDisturbances /\ credFaults' >= credFaults
    BY <1>1, <2>1
  <2>3. call' \in [Calls -> CallTypes]
    BY <1>0, <1>1
  <2>4. CredentialTypes'
    BY <1>0, <1>1, <2>2, <2>3 DEF CredentialTypes, CallTypes
  <2> QED
    BY <1>1, <2>2, <2>4, CallGoesOn
<1>2. CASE withCredential(w)
  <2>1. PICK d : d = [at |-> "select", attempt |-> 1]
    OBVIOUS
  <2>2. d \in CallTypes /\ d.at \notin Holding /\ call[w].at \notin Holding
    BY <1>2, <2>1 DEF CallTypes, Selecting, Holding, withCredential, Idle
  <2> QED
    BY <1>0, <1>1, <1>2, <2>1, <2>2 DEF withCredential, CredentialTypes
<1>3. CASE selectCandidates(w)
  <2> DEFINE S == {d \in Creds : Selectable(d)}
             rows == [c \in S |-> cred[c].limit]
  <2>1. call[w].at = "select" /\ call[w].attempt \in Nat
    BY <1>0, <1>3, CallAt DEF selectCandidates
  <2>2. rows \in Candidates
    <3>1. S \in SUBSET Creds /\ rows \in [S -> Limits]
      BY <1>0 DEF CredentialTypes, Row
    <3> HIDE DEF S, rows
    <3> QED
      BY <3>1 DEF Candidates
  <2>3. call' = [call EXCEPT ![w] = IF DOMAIN rows = {} THEN Idle
               ELSE [at |-> "reserve", attempt |-> call[w].attempt, rows |-> rows]]
    BY <1>3 DEF selectCandidates
  <2> HIDE DEF rows
  <2>4. PICK d : d = IF DOMAIN rows = {} THEN Idle
                     ELSE [at |-> "reserve", attempt |-> call[w].attempt, rows |-> rows]
    OBVIOUS
  <2>5. d \in CallTypes /\ d.at \notin Holding
    BY <2>1, <2>2, <2>4 DEF CallTypes, Reserving, Idle, Holding
  <2>6. call' = [call EXCEPT ![w] = d] /\ call[w].at \notin Holding
    BY <2>1, <2>3, <2>4 DEF Holding
  <2> QED
    BY <1>0, <1>1, <1>3, <2>5, <2>6 DEF selectCandidates, CredentialTypes
<1>4. CASE Answers(w)
  <2>1. call[w].at \in Holding
    BY <1>4 DEF Answers, Holding
  <2>2. \E d \in CallTypes : /\ call' = [call EXCEPT ![w] = d] /\ d.at \in Holding
                             /\ d.cred = call[w].cred /\ d.token = call[w].token
    <3>1. Goes(w, "succeeded") \/ Goes(w, "failed") \/ ThenEnds(w)
      BY <1>4 DEF Answers
    <3>2. "succeeded" \in Holding /\ "failed" \in Holding
      BY DEF Holding
    <3> QED
      BY <1>0, <2>1, <3>1, <3>2, CallStays
  <2> QED
    BY <1>0, <1>1, <1>4, <2>1, <2>2 DEF Answers, CredentialTypes
<1>5. CASE markSuccess(w)
  <2>1. call[w].at \in Holding
    BY <1>5 DEF markSuccess, Holding
  <2>2. \E d \in CallTypes : /\ call' = [call EXCEPT ![w] = d] /\ d.at \in Holding
                             /\ d.cred = call[w].cred /\ d.token = call[w].token
    BY <1>0, <1>5, <2>1, CallStays DEF markSuccess
  <2>3. cred' \in [Creds -> Row]
    <3>1. call[w].cred \in Creds /\ Marked(call[w].cred, "ACTIVE", FALSE)
      BY <1>0, <1>5, <2>1, CallAt DEF markSuccess
    <3> QED
      BY <1>0, <3>1, RowMarked DEF Statuses
  <2> QED
    BY <1>1, <1>5, <2>1, <2>2, <2>3 DEF markSuccess
<1>6. CASE markFailure(w)
  <2>1. call[w].at \in Holding /\ "release" \in Holding
    BY <1>6 DEF markFailure, Holding
  <2>2. \E d \in CallTypes : /\ call' = [call EXCEPT ![w] = d] /\ d.at \in Holding
                             /\ d.cred = call[w].cred /\ d.token = call[w].token
    BY <1>0, <1>6, <2>1, CallStays DEF markFailure
  <2>3. cred' \in [Creds -> Row]
    <3>1. call[w].cred \in Creds /\ cred[call[w].cred].cooling \in BOOLEAN
      BY <1>0, <2>1, CallAt DEF CredentialTypes, Row
    <3>2. \/ Marked(call[w].cred, "COOLDOWN", TRUE)
          \/ Marked(call[w].cred, "ERROR", cred[call[w].cred].cooling)
      BY <1>6 DEF markFailure
    <3> QED
      BY <1>0, <3>1, <3>2, RowMarked DEF Statuses
  <2> QED
    BY <1>1, <1>6, <2>1, <2>2, <2>3 DEF markFailure
<1>7. CASE Fault(w)
  <2>0. /\ credFaults + edits < MaxDisturbances /\ credFaults' = credFaults + 1
        /\ cred' \in [Creds -> Row] /\ lease' = lease /\ missed' = missed /\ editor' = editor /\ edits' = edits
    BY <1>0, <1>7 DEF Fault, CredentialTypes
  <2>1. CASE call' = [call EXCEPT ![w] = Idle]
    <3>1. Idle \in CallTypes /\ Idle.at \notin Holding
      BY DEF CallTypes, Idle, Holding
    <3> QED
      BY <1>1, <2>0, <2>1, <3>1
  <2>2. CASE call[w].at \in {"succeeded", "failed"} /\ ThenEnds(w)
    <3>1. call[w].at \in Holding
      BY <2>2 DEF Holding
    <3>2. \E d \in CallTypes : /\ call' = [call EXCEPT ![w] = d] /\ d.at \in Holding
                               /\ d.cred = call[w].cred /\ d.token = call[w].token
      BY <1>0, <2>2, <3>1, CallStays
    <3> QED
      BY <1>1, <2>0, <3>1, <3>2
  <2> QED
    BY <1>7, <2>1, <2>2 DEF Fault
<1> QED
  BY <1>2, <1>3, <1>4, <1>5, <1>6, <1>7, ReserveKeeps, ReleaseKeeps DEF CallStep

LEMMA CredentialsInvInit == CredentialsInit => CredentialsInv
<1>1. SUFFICES ASSUME CredentialsInit PROVE CredentialsInv
  OBVIOUS
<1>2. CredentialTypes
  <2>1. cred \in [Creds -> Row]
    <3>1. [status : {"ACTIVE"}, cooling : {FALSE}, limit : Limits] \subseteq Row
      BY DEF Row, Statuses
    <3> QED
      BY <1>1, <3>1 DEF CredentialsInit
  <2>2. call \in [Calls -> CallTypes] /\ lease \in [Tokens -> {NoLease} \cup Lease]
        /\ missed \in [Calls -> 0..TTL] /\ editor = Idle
    BY <1>1 DEF CredentialsInit, CallTypes, TTL
  <2>3. credFaults \in Nat /\ edits \in Nat /\ credFaults + edits <= MaxDisturbances
    BY <1>1, CredentialsAssumption DEF CredentialsInit
  <2> QED
    BY <2>1, <2>2, <2>3 DEF CredentialTypes, CallTypes
<1>3. \A w \in Calls : call[w].at \notin Holding
  BY <1>1 DEF CredentialsInit, Idle, Holding
<1>4. Leaked = {} /\ credFaults = 0
  BY <1>1 DEF CredentialsInit, Leaked
<1>5. Cardinality(Leaked) = 0
  BY <1>4, FS_EmptySet
<1> QED
  BY <1>2, <1>3, <1>4, <1>5 DEF CredentialsInv, TokensAreOwn, Kept

LEMMA CredentialsInvNext == CredentialsInv /\ [CredentialsNext]_credentialsVars => CredentialsInv'
<1>1. SUFFICES ASSUME CredentialsInv, [CredentialsNext]_credentialsVars PROVE CredentialsInv'
  OBVIOUS
<1>2. CredentialTypes
  BY <1>1 DEF CredentialsInv
<1>3. ASSUME NEW c \in Creds, CoolsDown(c) PROVE CredentialsInv'
  <2>1. PICK r \in Row : r = cred[c]
    BY <1>2 DEF CredentialTypes
  <2>2. [r EXCEPT !.cooling = FALSE] \in Row
    BY DEF Row
  <2>3. cred' \in [Creds -> Row]
    BY <1>2, <1>3, <2>1, <2>2 DEF CoolsDown, CredentialTypes
  <2>4. CredentialTypes'
    BY <1>2, <1>3, <2>3 DEF CredentialTypes, CoolsDown
  <2> QED
    BY <1>1, <1>3, <2>4, CallsGoOnAlike DEF CoolsDown
<1>4. ASSUME NEW c \in Creds, remove(c) PROVE CredentialsInv'
  <2>1. PICK r \in Row : r = cred[c]
    BY <1>2 DEF CredentialTypes
  <2>2. [r EXCEPT !.status = "GONE"] \in Row
    BY DEF Row
  <2>3. cred' \in [Creds -> Row]
    BY <1>2, <1>4, <2>1, <2>2 DEF remove, CredentialTypes
  <2>4. edits' \in Nat /\ credFaults' \in Nat /\ credFaults' + edits' <= MaxDisturbances
    BY <1>2, <1>4, CredentialsAssumption DEF remove, CredentialTypes
  <2>5. CredentialTypes'
    BY <1>2, <1>4, <2>3, <2>4 DEF CredentialTypes, remove
  <2> QED
    BY <1>1, <1>4, <2>5, CallsGoOnAlike DEF remove
<1>5. ASSUME NEW c \in Creds, EditRead(c) PROVE CredentialsInv'
  <2>1. editor' \in Writing
    BY <1>2, <1>5 DEF EditRead, Writing, CredentialTypes
  <2>2. edits' \in Nat /\ credFaults' \in Nat /\ credFaults' + edits' <= MaxDisturbances
    BY <1>2, <1>5, CredentialsAssumption DEF EditRead, CredentialTypes
  <2>3. CredentialTypes'
    BY <1>2, <1>5, <2>1, <2>2 DEF CredentialTypes, EditRead
  <2> QED
    BY <1>1, <1>5, <2>3, CallsGoOnAlike DEF EditRead
<1>6. ASSUME EditWrite PROVE CredentialsInv'
  <2>1. PICK e \in Writing : e = editor
    BY <1>2, <1>6 DEF EditWrite, CredentialTypes, Idle
  <2>2. e.row \in Row /\ e.cred \in Creds
    BY DEF Writing
  <2>3. e.row.status \in Statuses \cup {"GONE"} /\ e.row.cooling \in BOOLEAN
    BY <2>2 DEF Row
  <2>4. PICK status \in Statuses \cup {e.row.status}, limit \in Limits, cooling \in {FALSE, e.row.cooling} :
          cred' = IF cred[e.cred].status = "GONE" THEN cred
                  ELSE [cred EXCEPT ![e.cred] = [status |-> status, cooling |-> cooling, limit |-> limit]]
    BY <1>6, <2>1 DEF EditWrite
  <2>5. [status |-> status, cooling |-> cooling, limit |-> limit] \in Row
    BY <2>3 DEF Row
  <2>6. cred' \in [Creds -> Row]
    BY <1>2, <2>2, <2>4, <2>5 DEF CredentialTypes
  <2>7. CredentialTypes'
    BY <1>2, <1>6, <2>6 DEF CredentialTypes, EditWrite
  <2> QED
    BY <1>1, <1>6, <2>7, CallsGoOnAlike DEF EditWrite
<1>7. CASE UNCHANGED credentialsVars
  <2>1. CredentialTypes'
    BY <1>2, <1>7 DEF CredentialTypes, credentialsVars
  <2> QED
    BY <1>1, <1>7, <2>1, CallsGoOnAlike DEF credentialsVars
<1> QED
  BY <1>1, <1>3, <1>4, <1>5, <1>6, <1>7, CallStepKeeps, TickKeeps DEF CredentialsNext

(* No slot leaks but to the dead, and none is taken from a call that renews, *)
(* for any number of credentials, calls and disturbances                     *)
(* (redis-credential-manager.ts:96-118, 263-279; pipeline.ts:397-422).       *)
THEOREM NoSlotIsLost == CredentialsSpec => []LeasesAreCalls
<1>1. CredentialsInv => LeasesAreCalls
  BY LeaseIs DEF CredentialsInv, Leaked, Kept, LeasesAreCalls
<1> QED
  BY <1>1, CredentialsInvInit, CredentialsInvNext, PTL DEF CredentialsSpec

(* Those who keep a lease of a credential have a token each that counts.     *)
LEMMA KeepingIsCounted ==
    ASSUME CredentialsInv, NEW c \in Creds, NEW W, W \subseteq Keeping(c)
    PROVE  Cardinality(W) <= Cardinality(PurgedTokens(c))
           /\ Cardinality(W) \in Nat /\ Cardinality(PurgedTokens(c)) \in Nat /\ IsFiniteSet(W)
<1>0. CredentialTypes /\ TokensAreOwn /\ (\A v \in Calls : Kept(v))
  BY DEF CredentialsInv
<1>1. W \subseteq Calls /\ PurgedTokens(c) \subseteq Tokens
  BY DEF Keeping, PurgedTokens, TokensOf
<1> DEFINE f == [v \in W |-> call[v].token]
<1>2. ASSUME NEW v \in W PROVE call[v].token \in PurgedTokens(c)
  <2>1. v \in Calls /\ call[v].at \in Holding /\ call[v].cred = c /\ missed[v] < TTL
    BY DEF Keeping
  <2>2. PICK t \in Tokens : t = call[v].token
    BY <1>0, <2>1, CallAt DEF CredentialTypes, CallTypes
  <2>3. lease[t] \in Lease /\ lease[t].cred = c /\ lease[t].left >= TTL - missed[v] /\ missed[v] \in 0..TTL
    BY <1>0, <2>1, <2>2, LeaseIs DEF Kept, CredentialTypes
  <2>4. lease[t].left # 0
    BY <2>1, <2>3 DEF TTL
  <2> QED
    BY <2>2, <2>3, <2>4 DEF PurgedTokens, TokensOf, Lapsed
<1>3. f \in [W -> PurgedTokens(c)]
  BY <1>2
<1>4. \A v, w \in W : v # w => f[v] # f[w]
  BY <1>0 DEF Keeping, TokensAreOwn
<1> HIDE DEF f
<1>5. IsFiniteSet(W)
  BY <1>1, FS_Subset, CredentialsAssumption
<1> QED
  BY <1>1, <1>3, <1>4, <1>5, CallsInjected

LEMMA InUseIsCounted ==
    ASSUME CredentialTypes, NEW c \in Creds PROVE InUse(c) = PurgedTokens(c)
<1>1. ASSUME NEW t \in Tokens PROVE t \in InUse(c) <=> t \in PurgedTokens(c)
  <2>1. CASE lease[t] = NoLease
    BY <2>1, LeaseIs DEF InUse, PurgedTokens, TokensOf
  <2>2. CASE lease[t] \in Lease
    BY <2>2, LeaseIs DEF InUse, PurgedTokens, TokensOf, Lapsed, TTL
  <2> QED
    BY <2>1, <2>2 DEF CredentialTypes
<1> QED
  BY <1>1 DEF InUse, PurgedTokens, TokensOf

LEMMA OnlyReservingGives ==
    ASSUME CredentialsInv, [CredentialsNext]_credentialsVars,
           NEW w \in Calls, call[w].at = "reserve", call'[w].at = "call"
    PROVE  tryReserveLease(w)
<1>0. call \in [Calls -> CallTypes]
  BY DEF CredentialsInv, CredentialTypes, CallTypes
<1>1. \A c \in Creds : ~CoolsDown(c) /\ ~EditRead(c) /\ ~remove(c)
  BY DEF CoolsDown, EditRead, remove
<1>2. ~EditWrite /\ ~UNCHANGED credentialsVars
      /\ \A Late \in SUBSET {v \in Calls : call[v].at \in Holding} : ~Tick(Late)
  BY DEF EditWrite, credentialsVars, Tick
<1>3. PICK v \in Calls : CallStep(v) \/ Fault(v)
  BY <1>1, <1>2 DEF CredentialsNext
<1>4. v = w
  <2>1. \/ \E d : call' = [call EXCEPT ![v] = d]
        \/ \E at : Goes(v, at)
    <3>1. tryReserveLease(v) => \E d : call' = [call EXCEPT ![v] = d]
      BY ReserveDoes DEF GivenLease, PassedOver
    <3>2. withCredential(v) => \E d : call' = [call EXCEPT ![v] = d]
      BY DEF withCredential
    <3>3. selectCandidates(v) => \E d : call' = [call EXCEPT ![v] = d]
      BY DEF selectCandidates
    <3>4. ThenEnds(v) => \E d : call' = [call EXCEPT ![v] = d]
      BY DEF ThenEnds
    <3>5. release(v) => \E d : call' = [call EXCEPT ![v] = d]
      BY DEF release
    <3> QED
      BY <1>3, <3>1, <3>2, <3>3, <3>4, <3>5 DEF CallStep, Fault, Answers, markSuccess, markFailure
  <2>2. v # w => call'[w] = call[w]
    BY <1>0, <2>1 DEF Goes
  <2> QED
    BY <2>2
<1>5. ~Fault(w)
  BY <1>0 DEF Fault, Idle
<1>6. ~withCredential(w) /\ ~selectCandidates(w)
  BY DEF withCredential, selectCandidates, Idle
<1>7. ~Answers(w) /\ ~markSuccess(w)
  BY DEF Answers, markSuccess
<1>8. ~markFailure(w) /\ ~release(w)
  BY DEF markFailure, release
<1> QED
  BY <1>3, <1>4, <1>5, <1>6, <1>7, <1>8 DEF CallStep

LEMMA SlotStep ==
    ASSUME CredentialsInv, [CredentialsNext]_credentialsVars,
           NEW w \in Calls, NEW c \in Creds, Asks(w, c)
    PROVE  /\ Gets(w, c) => Cardinality(Keeping(c)') <= call[w].rows[c]
           /\ IsRefused(w, c) => Cardinality(InUse(c)) >= call[w].rows[c]
<1>0. /\ CredentialTypes /\ call \in [Calls -> CallTypes] /\ CredentialsInv'
      /\ call[w].at = "reserve" /\ c \in DOMAIN call[w].rows
  BY CredentialsInvNext DEF CredentialsInv, CredentialTypes, CallTypes, Asks
<1>1. ASSUME Gets(w, c) PROVE Cardinality(Keeping(c)') <= call[w].rows[c]
  <2>1. tryReserveLease(w)
    BY <1>0, <1>1, OnlyReservingGives DEF Gets
  <2>2. PICK b \in Creds : /\ b \in DOMAIN call[w].rows /\ call[w].rows[b] \in Nat
                           /\ \/ Given(w, b) /\ GivenLease(w, b)
                              \/ ~Given(w, b) /\ PassedOver(w, b)
    BY <2>1, ReserveDoes
  <2>3. Given(w, b) /\ GivenLease(w, b) /\ b = c
    <3>1. PassedOver(w, b) => call'[w].at # "call"
      BY <1>0 DEF PassedOver, Idle, Reserving
    <3>2. GivenLease(w, b) => call'[w].cred = b
      BY <1>0 DEF GivenLease
    <3> QED
      BY <1>1, <2>2, <3>1, <3>2 DEF Gets
  <2>4. \A v \in Calls : v # w => call'[v] = call[v] /\ missed'[v] = missed[v]
    BY <1>0, <2>3 DEF GivenLease, CredentialTypes
  <2> DEFINE others == Keeping(c)' \ {w}
  <2>5. others \subseteq Keeping(c)
    BY <2>4 DEF Keeping
  <2>6. /\ Cardinality(others) <= Cardinality(PurgedTokens(c)) /\ IsFiniteSet(others)
        /\ Cardinality(others) \in Nat /\ Cardinality(PurgedTokens(c)) \in Nat
    BY <2>5, KeepingIsCounted
  <2>7. Keeping(c)' \subseteq others \cup {w}
    OBVIOUS
  <2> HIDE DEF others
  <2>8. Cardinality(Keeping(c)') <= Cardinality(others) + 1
    <3>0. /\ IsFiniteSet(others \cup {w})
          /\ Cardinality(others \cup {w}) = IF w \in others THEN Cardinality(others) ELSE Cardinality(others) + 1
      BY <2>6, FS_AddElement
    <3>1. Cardinality(Keeping(c)') <= Cardinality(others \cup {w}) /\ Cardinality(Keeping(c)') \in Nat
      BY <2>7, <3>0, FS_Subset, FS_CardinalityType
    <3> QED
      BY <2>6, <3>0, <3>1
  <2>9. Cardinality(PurgedTokens(c)) < call[w].rows[c] /\ call[w].rows[c] \in Nat
    BY <2>2, <2>3 DEF Given
  <2>10. Cardinality(Keeping(c)') \in Nat
    <3>1. Keeping(c)' \subseteq Calls
      BY DEF Keeping
    <3> QED
      BY <3>1, FS_Subset, FS_CardinalityType, CredentialsAssumption
  <2> QED
    BY <2>6, <2>8, <2>9, <2>10
<1>2. ASSUME IsRefused(w, c) PROVE Cardinality(InUse(c)) >= call[w].rows[c]
  <2>1. PICK b \in Creds : /\ b \in DOMAIN call[w].rows /\ call[w].rows[b] \in Nat
                           /\ \/ Given(w, b) /\ GivenLease(w, b)
                              \/ ~Given(w, b) /\ PassedOver(w, b)
    BY <1>2, ReserveDoes DEF IsRefused
  <2>2. ~Given(w, b) /\ PassedOver(w, b)
    <3>1. GivenLease(w, b) => call'[w].at = "call"
      BY <1>0 DEF GivenLease
    <3> QED
      BY <1>2, <2>1, <3>1 DEF IsRefused, Idle
  <2>3. PICK d \in {Idle} \cup Reserving :
           /\ call'[w] = d
           /\ d = Idle => DOMAIN call[w].rows = {b}
           /\ d # Idle => d.at = "reserve" /\ DOMAIN d.rows = DOMAIN call[w].rows \ {b}
    BY <1>0, <2>2 DEF PassedOver
  <2>4. b = c
    BY <1>0, <1>2, <2>3 DEF IsRefused, Idle
  <2>5. Cardinality(PurgedTokens(c)) \in Nat
    <3>1. PurgedTokens(c) \subseteq Tokens
      BY DEF PurgedTokens, TokensOf
    <3> QED
      BY <3>1, FS_Subset, FS_CardinalityType, CredentialsAssumption
  <2>6. Cardinality(PurgedTokens(c)) >= call[w].rows[c]
    BY <2>1, <2>2, <2>4, <2>5 DEF Given
  <2> QED
    BY <1>0, <2>6, InUseIsCounted
<1> QED
  BY <1>1, <1>2

(* A slot is given exactly when one is free: no limit is overrun, and what a *)
(* dead worker or a lapsed lease left blocks nobody                          *)
(* (redis-credential-manager.ts:33-36, 236-252).                             *)
THEOREM SlotsAreGivenFairly == CredentialsSpec => SlotGivenIffFree
<1>1. CredentialsInv /\ [CredentialsNext]_credentialsVars =>
         \A w \in Calls, c \in Creds : Asks(w, c) =>
            /\ Gets(w, c) => Cardinality(Keeping(c)') <= call[w].rows[c]
            /\ IsRefused(w, c) => Cardinality(InUse(c)) >= call[w].rows[c]
  BY SlotStep
<1>2. CredentialsSpec => [][\A w \in Calls, c \in Creds : Asks(w, c) =>
            /\ Gets(w, c) => Cardinality(Keeping(c)') <= call[w].rows[c]
            /\ IsRefused(w, c) => Cardinality(InUse(c)) >= call[w].rows[c]
        ]_credentialsVars
  BY <1>1, CredentialsInvInit, CredentialsInvNext, PTL DEF CredentialsSpec
<1> QED
  BY <1>2 DEF SlotGivenIffFree

-----------------------------------------------------------------------------
(* Updates.                                                                  *)

Goals == Versions \cup {"none"}
Kinds == {"update", "code-only", "restore-db"}
Phases == {"prepare", "pull", "version", "stop", "restore", "api", "front", "health"}
Rolling == {"no", "switch", "health", "rollback.sh"}
Services == [api : Goals \cup {"down"}, front : Goals \cup {"down"}, postgres : {"up", "down"}]
RecordStatuses ==
    {"none", "in_progress", "success", "rollback_success", "failed_rolled_back", "failed_rollback"}
Records == [status : RecordStatuses, previous : Goals, current : Goals]
Ended == [at : {"done"}, code : {0, 1}]
Started == [at : {"start"}, kind : Kinds, goal : Goals]
Working == [at : Phases, kind : Kinds, goal : Goals, rolling : Rolling]

(* How far a script has come is what it has done.                            *)
Fits(d, sv, version, rec) ==
    /\ d.at \in {"api", "front", "health"} => version = d.goal
    /\ d.at \in {"front", "health"} => sv.api = d.goal /\ sv.postgres = "up"
    /\ d.at = "health" => sv.front = d.goal
    /\ d.at \in {"stop", "restore"} => d.rolling # "no"
    /\ d.at \in {"pull", "version", "api", "front", "health"} /\ d.rolling = "no" => rec.current = d.goal

DeployedTypes == services \in Services /\ versionEnv \in Goals /\ record \in Records

UpdateInv ==
    /\ DeployedTypes
    /\ script \in [Runs -> {NoScript} \cup Ended \cup Started \cup Working]
    /\ \A s, t \in Runs : Locked(s) /\ Locked(t) => s = t
    /\ \A s \in Runs : script[s] \in Working => Fits(script[s], services, versionEnv, record)

LEMMA ScriptAt ==
    ASSUME NEW d \in {NoScript} \cup Ended \cup Started \cup Working
    PROVE  /\ d \in Working <=> d.at \notin {"none", "start", "done"}
           /\ d.at = "start" <=> d \in Started
           /\ d \in Working => d.kind \in Kinds /\ d.goal \in Goals /\ d.rolling \in Rolling /\ d.at \in Phases
           /\ d \in Started => d.kind \in Kinds /\ d.goal \in Goals
BY DEF NoScript, Ended, Started, Working, Phases

LEMMA UpdateInvInit == UpdateInit => UpdateInv
<1>1. SUFFICES ASSUME UpdateInit PROVE UpdateInv
  OBVIOUS
<1>2. DeployedTypes
  BY <1>1, UpdateAssumption DEF UpdateInit, DeployedTypes, Services, Records, RecordStatuses, Goals
<1>3. \A s \in Runs : script[s] = NoScript /\ NoScript.at = "none"
  BY <1>1 DEF UpdateInit, NoScript
<1>4. script \in [Runs -> {NoScript} \cup Ended \cup Started \cup Working]
  BY <1>1 DEF UpdateInit
<1>5. \A s \in Runs : ~Locked(s)
  BY <1>3 DEF Locked
<1>6. \A s \in Runs : script[s] \notin Working
  BY <1>3, <1>4, ScriptAt
<1> QED
  BY <1>2, <1>4, <1>5, <1>6 DEF UpdateInv

(* A script goes on to d and what it does to the deployment fits d: no other *)
(* script is between acquire_lock and its end.                               *)
LEMMA ScriptGoesOn ==
    ASSUME UpdateInv, NEW s \in Runs, NEW d \in {NoScript} \cup Ended \cup Started \cup Working,
           script' = [script EXCEPT ![s] = d],
           Locked(s) \/ UNCHANGED deployed,
           DeployedTypes',
           d \in Working => (Locked(s) \/ ~Busy(s)) /\ Fits(d, services', versionEnv', record')
    PROVE  UpdateInv'
<1>1. /\ script \in [Runs -> {NoScript} \cup Ended \cup Started \cup Working]
      /\ \A t, u \in Runs : Locked(t) /\ Locked(u) => t = u
      /\ \A t \in Runs : script[t] \in Working => Fits(script[t], services, versionEnv, record)
  BY DEF UpdateInv
<1>2. script' \in [Runs -> {NoScript} \cup Ended \cup Started \cup Working]
      /\ script'[s] = d /\ \A t \in Runs : t # s => script'[t] = script[t]
  BY <1>1
<1>3. \A t \in Runs : t # s => (Locked(t)' <=> Locked(t))
  BY <1>2 DEF Locked
<1>4. \A t \in Runs : script[t] \in Working <=> Locked(t)
  BY <1>1, ScriptAt DEF Locked
<1>5. Locked(s)' => d \in Working
  BY <1>2, ScriptAt DEF Locked
<1>6. d \in Working => \A t \in Runs : t # s => ~Locked(t)
  BY <1>1 DEF Busy
<1>7. \A t, u \in Runs : Locked(t)' /\ Locked(u)' => t = u
  BY <1>1, <1>3, <1>5, <1>6
<1>8. ASSUME NEW t \in Runs, script'[t] \in Working PROVE Fits(script'[t], services', versionEnv', record')
  <2>1. CASE t = s
    BY <1>2, <1>8, <2>1
  <2>2. CASE t # s
    <3>1. script'[t] = script[t] /\ Locked(t) /\ Fits(script[t], services, versionEnv, record)
      BY <1>1, <1>2, <1>4, <1>8, <2>2
    <3>2. UNCHANGED deployed
      BY <1>1, <2>2, <3>1
    <3>3. services' = services /\ versionEnv' = versionEnv /\ record' = record
      BY <3>2 DEF deployed
    <3> QED
      BY <3>1, <3>3
  <2> QED
    BY <2>1, <2>2
<1>9. QED
  BY <1>2, <1>7, <1>8 DEF UpdateInv, DeployedTypes

(* What Moves, RollsBack and Exits make of a working script.                 *)
LEMMA WorkGoesOn ==
    ASSUME NEW s \in Runs, UpdateInv, script[s] \in Working
    PROVE  /\ \A at \in Phases : Moves(s, at) =>
                  \E d \in Working : /\ script' = [script EXCEPT ![s] = d]
                                     /\ d.at = at /\ d.goal = script[s].goal /\ d.rolling = script[s].rolling
           /\ \A phase \in Rolling : RollsBack(s, phase) =>
                  \E d \in Working : /\ script' = [script EXCEPT ![s] = d]
                                     /\ d.at = "stop" /\ d.rolling = phase
<1>0. script \in [Runs -> {NoScript} \cup Ended \cup Started \cup Working]
  BY DEF UpdateInv
<1>1. PICK w \in Working : w = script[s]
  OBVIOUS
<1>2. ASSUME NEW at \in Phases, Moves(s, at)
      PROVE  \E d \in Working : /\ script' = [script EXCEPT ![s] = d]
                                /\ d.at = at /\ d.goal = script[s].goal /\ d.rolling = script[s].rolling
  <2>1. [w EXCEPT !.at = at] \in Working
        /\ [w EXCEPT !.at = at].at = at /\ [w EXCEPT !.at = at].goal = w.goal
        /\ [w EXCEPT !.at = at].rolling = w.rolling
    BY DEF Working
  <2>2. script' = [script EXCEPT ![s] = [w EXCEPT !.at = at]]
    BY <1>0, <1>1, <1>2 DEF Moves
  <2> QED
    BY <1>1, <2>1, <2>2
<1>3. ASSUME NEW phase \in Rolling, RollsBack(s, phase)
      PROVE  \E d \in Working : script' = [script EXCEPT ![s] = d] /\ d.at = "stop" /\ d.rolling = phase
  <2>1. [w EXCEPT !.at = "stop", !.rolling = phase] \in Working
        /\ [w EXCEPT !.at = "stop", !.rolling = phase].at = "stop"
        /\ [w EXCEPT !.at = "stop", !.rolling = phase].rolling = phase
    BY DEF Working, Phases
  <2>2. script' = [script EXCEPT ![s] = [w EXCEPT !.at = "stop", !.rolling = phase]]
    BY <1>1, <1>3 DEF RollsBack
  <2> QED
    BY <2>1, <2>2
<1>4. QED
  BY <1>2, <1>3

LEMMA ExitsIn == \A s \in Runs, code \in {0, 1} : Exit(code) \in Ended /\ Exit(code).at = "done"
BY DEF Exit, Ended

LEMMA ScriptExits ==
    ASSUME UpdateInv, NEW s \in Runs, NEW code \in {0, 1}, Exits(s, code),
           Locked(s) \/ UNCHANGED deployed, DeployedTypes'
    PROVE  UpdateInv'
<1>1. PICK d \in Ended : d = Exit(code)
  BY ExitsIn
<1>2. d \notin Working
  BY DEF Ended, Working, Phases
<1>3. script' = [script EXCEPT ![s] = d]
  BY <1>1 DEF Exits
<1> QED
  BY <1>2, <1>3, ScriptGoesOn

(* The same record is written only by Health, and then it is what runs.      *)
RecordFits ==
    record' # record /\ record'.status \in {"success", "rollback_success", "failed_rolled_back"} =>
        /\ services' = [api |-> record'.current, front |-> record'.current, postgres |-> "up"]
        /\ versionEnv' = record'.current

LEMMA BeginKeeps ==
    ASSUME UpdateInv, NEW s \in Runs, Begin(s) PROVE UpdateInv' /\ RecordFits
<1>1. UNCHANGED deployed /\ script[s].at = "start"
  BY DEF Begin
<1>2. services' = services /\ versionEnv' = versionEnv /\ record' = record
  BY <1>1 DEF deployed
<1>3. DeployedTypes' /\ DeployedTypes /\ script[s] \in {NoScript} \cup Ended \cup Started \cup Working
  BY <1>2 DEF DeployedTypes, UpdateInv
<1>4. script[s] \in Started /\ script[s].kind \in Kinds /\ script[s].goal \in Goals
  BY <1>1, <1>3, ScriptAt
<1>5. ASSUME NEW code \in {0, 1}, Exits(s, code) PROVE UpdateInv'
  BY <1>1, <1>3, <1>5, ScriptExits
<1>6. ASSUME NEW d \in Working, script' = [script EXCEPT ![s] = d], ~Busy(s), d.at = "prepare" \/ (d.at = "stop" /\ d.rolling # "no")
      PROVE  UpdateInv'
  <2>1. Fits(d, services', versionEnv', record')
    BY <1>6 DEF Fits
  <2> QED
    BY <1>1, <1>3, <1>6, <2>1, ScriptGoesOn
<1>7. ASSUME ~Busy(s), script' = [script EXCEPT ![s] =
                      [at |-> "prepare", kind |-> "update", goal |-> script[s].goal, rolling |-> "no"]]
      PROVE  UpdateInv'
  <2>1. PICK d \in Working : d = [at |-> "prepare", kind |-> "update", goal |-> script[s].goal, rolling |-> "no"]
    BY <1>4 DEF Working, Phases, Kinds, Rolling
  <2>2. d.at = "prepare" /\ ~Busy(s) /\ script' = [script EXCEPT ![s] = d]
    BY <1>7, <2>1
  <2> QED
    BY <1>6, <2>2
<1>8. ASSUME ~Busy(s), script' = [script EXCEPT ![s] =
                      [at |-> "stop", kind |-> script[s].kind, goal |-> record.previous, rolling |-> "rollback.sh"]]
      PROVE  UpdateInv'
  <2>0. record.previous \in Goals
    BY <1>3 DEF DeployedTypes, Records
  <2>1. PICK d \in Working : d = [at |-> "stop", kind |-> script[s].kind, goal |-> record.previous,
                                  rolling |-> "rollback.sh"]
    BY <1>4, <2>0 DEF Working, Phases, Rolling
  <2> QED
    BY <1>6, <1>8, <2>1
<1>9. UpdateInv'
  BY <1>5, <1>7, <1>8 DEF Begin
<1>10. RecordFits
  BY <1>2 DEF RecordFits
<1> QED
  BY <1>9, <1>10

LEMMA StepKeeps ==
    ASSUME UpdateInv, NEW s \in Runs, ScriptStep(s) PROVE UpdateInv' /\ RecordFits
<1>0. script \in [Runs -> {NoScript} \cup Ended \cup Started \cup Working] /\ DeployedTypes
  BY DEF UpdateInv
<1>1. script[s] \in Working \/ Begin(s)
  BY <1>0, ScriptAt DEF ScriptStep, Prepare, Pull, WriteVersion, Stop, Restore, SwitchApi, SwitchFront, Health
<1>2. CASE Begin(s)
  BY <1>2, BeginKeeps
<1>3. CASE script[s] \in Working
  <2>0. /\ Locked(s) /\ script[s].kind \in Kinds /\ script[s].goal \in Goals
        /\ script[s].rolling \in Rolling
        /\ Fits(script[s], services, versionEnv, record)
    BY <1>0, <1>3, ScriptAt DEF Locked, UpdateInv
  <2>1. ASSUME NEW code \in {0, 1}, Exits(s, code), DeployedTypes' PROVE UpdateInv'
    BY <2>0, <2>1, ScriptExits
  <2>2. ASSUME NEW at \in Phases, Moves(s, at), DeployedTypes',
               \A d \in Working : d.at = at /\ d.goal = script[s].goal /\ d.rolling = script[s].rolling
                    => Fits(d, services', versionEnv', record')
        PROVE  UpdateInv'
    <3>1. PICK d \in Working : /\ script' = [script EXCEPT ![s] = d]
                               /\ d.at = at /\ d.goal = script[s].goal /\ d.rolling = script[s].rolling
      BY <1>3, <2>2, WorkGoesOn
    <3>2. Fits(d, services', versionEnv', record')
      BY <2>2, <3>1
    <3> QED
      BY <2>0, <2>2, <3>1, <3>2, ScriptGoesOn
  <2>3. ASSUME NEW phase \in Rolling \ {"no"}, RollsBack(s, phase), DeployedTypes' PROVE UpdateInv'
    <3>1. PICK d \in Working : script' = [script EXCEPT ![s] = d] /\ d.at = "stop" /\ d.rolling = phase
      BY <1>3, <2>3, WorkGoesOn
    <3>2. Fits(d, services', versionEnv', record')
      BY <2>3, <3>1 DEF Fits
    <3> QED
      BY <2>0, <2>3, <3>1, <3>2, ScriptGoesOn
  <2>4. ASSUME NEW phase \in {"switch", "health"}, Fails(s, phase),
               services' \in Services, versionEnv' \in Goals
        PROVE  UpdateInv' /\ RecordFits
    <3>1. record' = record \/ record' = [record EXCEPT !.status = "failed_rollback"]
      BY <2>4 DEF Fails
    <3>2. record' \in Records /\ (record' # record => record'.status = "failed_rollback")
      BY <1>0, <3>1 DEF DeployedTypes, Records, RecordStatuses
    <3>3. DeployedTypes'
      BY <2>4, <3>2 DEF DeployedTypes
    <3>4. RecordFits
      BY <3>2 DEF RecordFits
    <3>5. phase \in Rolling \ {"no"}
      BY DEF Rolling
    <3>6. UpdateInv'
      BY <2>1, <2>3, <2>4, <3>3, <3>5 DEF Fails
    <3> QED
      BY <3>4, <3>6
  <2>5. record' = record => RecordFits
    BY DEF RecordFits
  <2>6. ASSUME Prepare(s) PROVE UpdateInv' /\ RecordFits
    <3>1. services' = services /\ versionEnv' = versionEnv
      BY <2>6 DEF Prepare
    <3>2. CASE Exits(s, 1) /\ record' = record
      BY <1>0, <2>1, <2>5, <3>1, <3>2 DEF DeployedTypes
    <3>3. CASE record' = [status |-> "in_progress", previous |-> versionEnv, current |-> script[s].goal]
               /\ Moves(s, "pull")
      <4>1. record' \in Records /\ record'.current = script[s].goal /\ record'.status = "in_progress"
        BY <1>0, <2>0, <3>3 DEF DeployedTypes, Records, RecordStatuses
      <4>2. DeployedTypes'
        BY <1>0, <3>1, <4>1 DEF DeployedTypes
      <4>3. \A d \in Working : d.at = "pull" /\ d.goal = script[s].goal
                    => Fits(d, services', versionEnv', record')
        BY <4>1 DEF Fits
      <4>4. UpdateInv'
        BY <2>2, <3>3, <4>2, <4>3 DEF Phases
      <4>5. RecordFits
        BY <4>1 DEF RecordFits
      <4> QED
        BY <4>4, <4>5
    <3> QED
      BY <2>6, <3>2, <3>3 DEF Prepare
  <2>7. ASSUME Pull(s) \/ Restore(s) PROVE UpdateInv' /\ RecordFits
    <3>1. services' = services /\ versionEnv' = versionEnv /\ record' = record
      BY <2>7 DEF Pull, Restore, deployed
    <3>2. DeployedTypes'
      BY <1>0, <3>1 DEF DeployedTypes
    <3>3. CASE Exits(s, 1)
      BY <2>1, <2>5, <3>1, <3>2, <3>3
    <3>4. CASE Moves(s, "version") /\ script[s].at \in {"pull", "restore"}
      <4>1. \A d \in Working : d.at = "version" /\ d.goal = script[s].goal /\ d.rolling = script[s].rolling
                    => Fits(d, services', versionEnv', record')
        BY <2>0, <3>1, <3>4 DEF Fits
      <4> QED
        BY <2>2, <2>5, <3>1, <3>2, <3>4, <4>1 DEF Phases
    <3> QED
      BY <2>7, <3>3, <3>4 DEF Pull, Restore
  <2>8. ASSUME WriteVersion(s) PROVE UpdateInv' /\ RecordFits
    <3>1. services' = services /\ versionEnv' = script[s].goal /\ record' = record /\ script[s].at = "version"
      BY <2>8 DEF WriteVersion
    <3>2. DeployedTypes'
      BY <1>0, <2>0, <3>1 DEF DeployedTypes
    <3>3. \A d \in Working : d.at = "api" /\ d.goal = script[s].goal /\ d.rolling = script[s].rolling
                    => Fits(d, services', versionEnv', record')
      BY <2>0, <3>1 DEF Fits
    <3>4. Moves(s, "api") => UpdateInv'
      BY <2>2, <3>2, <3>3 DEF Phases
    <3>5. RollsBack(s, "switch") => UpdateInv'
      BY <2>3, <3>2 DEF Rolling
    <3> QED
      BY <2>5, <2>8, <3>1, <3>4, <3>5 DEF WriteVersion
  <2>9. ASSUME Stop(s) PROVE UpdateInv' /\ RecordFits
    <3>1. versionEnv' = versionEnv /\ record' = record /\ script[s].at = "stop"
          /\ services' = [svc \in DOMAIN services |-> "down"]
      BY <2>9 DEF Stop
    <3>2. services' \in Services
      BY <1>0, <3>1 DEF DeployedTypes, Services
    <3>3. DeployedTypes' /\ record.previous \in Goals
      BY <1>0, <3>1, <3>2 DEF DeployedTypes, Records
    <3>4. PICK w \in Working : w = script[s]
      BY <1>3
    <3>5. PICK at \in {"restore", "version"} : at = IF script[s].kind = "restore-db" THEN "restore" ELSE "version"
      OBVIOUS
    <3>6. PICK g \in Goals : g = record.previous
      BY <3>3
    <3>7. PICK d \in Working : d = [w EXCEPT !.at = at, !.goal = g] /\ d.at = at /\ d.rolling = w.rolling
      <4>1. [w EXCEPT !.at = at, !.goal = g] \in Working
            /\ [w EXCEPT !.at = at, !.goal = g].at = at
            /\ [w EXCEPT !.at = at, !.goal = g].rolling = w.rolling
        BY DEF Working, Phases
      <4> QED
        BY <4>1
    <3>8. script' = [script EXCEPT ![s] = d]
      BY <2>9, <3>4, <3>5, <3>6, <3>7 DEF Stop
    <3>9. Fits(d, services', versionEnv', record')
      BY <2>0, <3>1, <3>4, <3>5, <3>7 DEF Fits
    <3> QED
      BY <2>0, <2>5, <3>1, <3>3, <3>8, <3>9, ScriptGoesOn
  <2>10. ASSUME SwitchApi(s) PROVE UpdateInv' /\ RecordFits
    <3>1. versionEnv' = versionEnv /\ script[s].at = "api"
      BY <2>10 DEF SwitchApi
    <3>2. CASE services' = [services EXCEPT !.api = script[s].goal, !.postgres = "up"]
               /\ Moves(s, "front") /\ record' = record
      <4>1. services' \in Services /\ services'.api = script[s].goal /\ services'.postgres = "up"
        BY <1>0, <2>0, <3>2 DEF DeployedTypes, Services
      <4>2. DeployedTypes'
        BY <1>0, <3>1, <3>2, <4>1 DEF DeployedTypes
      <4>3. \A d \in Working : d.at = "front" /\ d.goal = script[s].goal /\ d.rolling = script[s].rolling
                    => Fits(d, services', versionEnv', record')
        BY <2>0, <3>1, <3>2, <4>1 DEF Fits
      <4> QED
        BY <2>2, <2>5, <3>2, <4>2, <4>3 DEF Phases
    <3>3. ASSUME NEW api \in {services.api, "down"}, NEW postgres \in {services.postgres, "up"},
                 services' = [services EXCEPT !.api = api, !.postgres = postgres], Fails(s, "switch")
          PROVE  UpdateInv' /\ RecordFits
      <4>1. services' \in Services /\ versionEnv' \in Goals
        BY <1>0, <3>1, <3>3 DEF DeployedTypes, Services
      <4> QED
        BY <2>4, <3>3, <4>1
    <3> QED
      BY <2>10, <3>2, <3>3 DEF SwitchApi
  <2>11. ASSUME SwitchFront(s) PROVE UpdateInv' /\ RecordFits
    <3>1. versionEnv' = versionEnv /\ script[s].at = "front"
      BY <2>11 DEF SwitchFront
    <3>2. CASE services' = [services EXCEPT !.front = script[s].goal]
               /\ Moves(s, "health") /\ record' = record
      <4>1. services' \in Services /\ services'.front = script[s].goal
            /\ services'.api = services.api /\ services'.postgres = services.postgres
        BY <1>0, <2>0, <3>2 DEF DeployedTypes, Services
      <4>2. DeployedTypes'
        BY <1>0, <3>1, <3>2, <4>1 DEF DeployedTypes
      <4>3. \A d \in Working : d.at = "health" /\ d.goal = script[s].goal /\ d.rolling = script[s].rolling
                    => Fits(d, services', versionEnv', record')
        BY <2>0, <3>1, <3>2, <4>1 DEF Fits
      <4> QED
        BY <2>2, <2>5, <3>2, <4>2, <4>3 DEF Phases
    <3>3. ASSUME NEW front \in {services.front, "down"},
                 services' = [services EXCEPT !.front = front], Fails(s, "switch")
          PROVE  UpdateInv' /\ RecordFits
      <4>1. services' \in Services /\ versionEnv' \in Goals
        BY <1>0, <3>1, <3>3 DEF DeployedTypes, Services
      <4> QED
        BY <2>4, <3>3, <4>1
    <3> QED
      BY <2>11, <3>2, <3>3 DEF SwitchFront
  <2>12. ASSUME Health(s) PROVE UpdateInv' /\ RecordFits
    <3>1. services' = services /\ versionEnv' = versionEnv /\ script[s].at = "health"
      BY <2>12 DEF Health
    <3>2. services' \in Services /\ versionEnv' \in Goals
      BY <1>0, <3>1 DEF DeployedTypes
    <3>3. Fails(s, "health") => UpdateInv' /\ RecordFits
      BY <2>4, <3>2
    <3>4. ASSUME NEW status \in {"success", "rollback_success", "failed_rolled_back"},
                 \/ record' = [record EXCEPT !.status = status] /\ script[s].rolling = "no"
                 \/ record' = [record EXCEPT !.status = status, !.current = script[s].goal],
                 NEW code \in {0, 1}, Exits(s, code)
          PROVE  UpdateInv' /\ RecordFits
      <4>1. record' \in Records /\ record'.current = script[s].goal
        BY <1>0, <2>0, <3>1, <3>4 DEF DeployedTypes, Records, RecordStatuses, Fits
      <4>2. DeployedTypes'
        BY <3>2, <4>1 DEF DeployedTypes
      <4>3. versionEnv = script[s].goal /\ services.api = script[s].goal
            /\ services.front = script[s].goal /\ services.postgres = "up" /\ services \in Services
        BY <1>0, <2>0, <3>1 DEF Fits, DeployedTypes
      <4>4. services = [api |-> script[s].goal, front |-> script[s].goal, postgres |-> "up"]
        BY <4>3 DEF Services
      <4>5. RecordFits
        BY <3>1, <4>1, <4>3, <4>4 DEF RecordFits
      <4> QED
        BY <2>1, <3>4, <4>2, <4>5
    <3>5. CASE record' = (CASE script[s].rolling = "no" -> [record EXCEPT !.status = "success"]
                         [] script[s].rolling = "rollback.sh" ->
                                [record EXCEPT !.status = "rollback_success", !.current = script[s].goal]
                         [] OTHER -> [record EXCEPT !.status = "failed_rolled_back", !.current = script[s].goal])
               /\ Exits(s, IF script[s].rolling \in {"no", "rollback.sh"} THEN 0 ELSE 1)
      <4>1. PICK code \in {0, 1} : code = IF script[s].rolling \in {"no", "rollback.sh"} THEN 0 ELSE 1
        OBVIOUS
      <4>2. Exits(s, code)
        BY <3>5, <4>1
      <4>3. \E status \in {"success", "rollback_success", "failed_rolled_back"} :
                 \/ record' = [record EXCEPT !.status = status] /\ script[s].rolling = "no"
                 \/ record' = [record EXCEPT !.status = status, !.current = script[s].goal]
        BY <3>5
      <4> QED
        BY <3>4, <4>2, <4>3
    <3> QED
      BY <2>12, <3>3, <3>5 DEF Health
  <2> QED
    BY <1>2, <2>6, <2>7, <2>8, <2>9, <2>10, <2>11, <2>12 DEF ScriptStep
<1>4. QED
  BY <1>1, <1>2, <1>3

LEMMA UpdateInvNext == UpdateInv /\ [UpdateNext]_updateVars => UpdateInv' /\ RecordFits
<1>1. SUFFICES ASSUME UpdateInv, [UpdateNext]_updateVars PROVE UpdateInv' /\ RecordFits
  OBVIOUS
<1>2. ASSUME services' = services, versionEnv' = versionEnv, record' = record, script' = script
      PROVE  UpdateInv' /\ RecordFits
  BY <1>1, <1>2 DEF UpdateInv, DeployedTypes, Locked, RecordFits
<1>3. ASSUME NEW s \in Runs, NEW plan \in [kind : Kinds, goal : Goals], Starts(s, plan),
             UNCHANGED deployed
      PROVE  UpdateInv' /\ RecordFits
  <2>1. services' = services /\ versionEnv' = versionEnv /\ record' = record
    BY <1>3 DEF deployed
  <2>2. DeployedTypes' /\ RecordFits
    BY <1>1, <2>1 DEF UpdateInv, DeployedTypes, RecordFits
  <2>3. PICK d \in Started : d = [at |-> "start", kind |-> plan.kind, goal |-> plan.goal]
    BY DEF Started
  <2>4. script' = [script EXCEPT ![s] = d] /\ d \notin Working
    BY <1>3, <2>3, ScriptAt DEF Starts, Started
  <2> QED
    BY <1>1, <1>3, <2>2, <2>4, ScriptGoesOn
<1>4. CASE UNCHANGED updateVars
  BY <1>2, <1>4 DEF updateVars, deployed
<1>5. \A mode \in Kinds : Rollback(mode) \in [kind : Kinds, goal : Goals]
  BY DEF Rollback, Goals
<1>6. Plans \subseteq [kind : Kinds, goal : Goals]
  BY DEF Plans, Goals, Kinds
<1>7. ASSUME NEW o \in Ops, StartOperation(o) PROVE UpdateInv' /\ RecordFits
  <2>1. PICK plan \in Plans \cup {Rollback("code-only")} : Starts(o, plan)
    BY <1>7 DEF StartOperation
  <2>2. plan \in [kind : Kinds, goal : Goals] /\ o \in Runs /\ UNCHANGED deployed
    BY <1>5, <1>6, <1>7 DEF Kinds, Runs, StartOperation
  <2> QED
    BY <1>3, <2>1, <2>2
<1>8. ASSUME NEW s \in Shells, RunOverSsh(s) PROVE UpdateInv' /\ RecordFits
  <2>1. PICK plan \in Plans \cup {Rollback("code-only"), Rollback("restore-db")} : Starts(s, plan)
    BY <1>8 DEF RunOverSsh
  <2>2. plan \in [kind : Kinds, goal : Goals] /\ s \in Runs /\ UNCHANGED deployed
    BY <1>5, <1>6, <1>8 DEF Kinds, Runs, RunOverSsh
  <2> QED
    BY <1>3, <2>1, <2>2
<1>9. ASSUME NEW o \in Ops, ExecutorError(o) \/ Close(o) PROVE UpdateInv' /\ RecordFits
  BY <1>2, <1>9 DEF ExecutorError, Close, deployed
<1>10. ASSUME LockExpires PROVE UpdateInv' /\ RecordFits
  BY <1>2, <1>10 DEF LockExpires, deployed
<1>11. ASSUME NEW s \in Runs, Kill(s) PROVE UpdateInv' /\ RecordFits
  <2>1. services' = services /\ versionEnv' = versionEnv /\ record' = record /\ Locked(s) /\ Exits(s, 1)
    BY <1>11 DEF Kill, deployed
  <2>2. DeployedTypes' /\ RecordFits
    BY <1>1, <2>1 DEF UpdateInv, DeployedTypes, RecordFits
  <2> QED
    BY <1>1, <2>1, <2>2, ScriptExits
<1>12. QED
  BY <1>1, <1>4, <1>7, <1>8, <1>9, <1>10, <1>11, StepKeeps DEF UpdateNext

(* What is recorded as the end of an update or a rollback is what runs, for  *)
(* any number of operations, shells and deaths of scripts                    *)
(* (update.sh:226-254, rollback.sh:65-103, lib.sh:111).                      *)
THEOREM RecordsTellTheTruth == UpdateSpec => RecordIsWhatRuns
<1>1. UpdateInv /\ [UpdateNext]_updateVars => [RecordFits]_updateVars
  BY UpdateInvNext
<1>2. UpdateInv /\ [UpdateNext]_updateVars => UpdateInv'
  BY UpdateInvNext
<1>3. UpdateSpec => [][RecordFits]_updateVars
  BY <1>1, <1>2, UpdateInvInit, PTL DEF UpdateSpec
<1> QED
  BY <1>3 DEF RecordIsWhatRuns, RecordFits
=============================================================================
