------------------------------- MODULE Pricing -------------------------------
(* The pricing engine: which entry of the dynamic rules prices a request.    *)
(*                                                                           *)
(* Requests say what they want in several ways (a size, a resolution, a      *)
(* width and height, any of them together); a rule set has tables or not.    *)
(* An outcome is the entry that is found: a key of a table, "base" when no   *)
(* table applies, "refused" for a domain error.  What the entry is           *)
(* multiplied with, and rounding, are left out.                              *)
(*                                                                           *)
(* Pictures and Clips: exact dimensions ("WxH").  SizeOf: the Agnes size of  *)
(* a native picture, "none" for others (AGNES_IMAGE_DIMENSIONS).  Covered:   *)
(* the dimensions the wildcard key "wild" matches.                           *)
EXTENDS Naturals

CONSTANTS Pictures, SizeOf, Clips, Width, Height, Covered, Qualities, Rates

ASSUME PricingAssumption ==
    /\ Pictures \subseteq DOMAIN SizeOf
    /\ Width \in [Clips -> Nat] /\ Height \in [Clips -> Nat]
    /\ {"none", "wild", "base", "refused"} \cap (Pictures \cup Clips) = {}
    /\ {SizeOf[p] : p \in Pictures} \cap (Pictures \cup {"wild"}) = {}

VARIABLES quote    \* the rule set, the request and its outcome

(* normalizeVideoResolutionTier: by the longer side, so that portrait and    *)
(* landscape are of one tier; "none" beyond the last.                        *)
TierOf(c) ==
    LET longer == IF Width[c] > Height[c] THEN Width[c] ELSE Height[c]
    IN  CASE longer <= 854 -> "480p"
          [] 854 < longer /\ longer <= 1280 -> "720p"
          [] 1280 < longer /\ longer <= 1920 -> "1080p"
          [] 1920 < longer -> "none"

Sizes == {SizeOf[p] : p \in Pictures} \ {"none"}
Tiers == {TierOf(c) : c \in Clips} \ {"none"}

(* A rule set without a table differs from one with an empty table.          *)
NoTable == {"no table"}
Tables(keys) == {NoTable} \cup SUBSET keys
ImageRules == [size : Tables(Sizes), resolution : Tables(Pictures \cup {"wild"}), quality : Tables(Qualities)]
VideoRules == [resolution : Tables(Clips \cup Tiers \cup {"wild"}), quality : Tables(Qualities), fps : Tables(Rates)]

(* A request for one picture; what it says of it agrees.                     *)
ImageRequests ==
    {q \in [picture : Pictures, size : {"no", "name", "exact"}, resolution : BOOLEAN,
            widthHeight : BOOLEAN, quality : {"no"} \cup Qualities] :
        q.size = "name" => SizeOf[q.picture] # "none"}
VideoRequests ==
    {q \in [clip : Clips, resolution : {"no", "tier", "exact"}, widthHeight : BOOLEAN,
            quality : {"no"} \cup Qualities, fps : {"no"} \cup Rates] :
        q.resolution = "tier" => TierOf(q.clip) # "none"}

NoQuote == [outcome |-> "none"]
PricingInit == quote = NoQuote

-----------------------------------------------------------------------------
(* Lookups.                                                                  *)

(* quality and fps: optional in the request, but not to be invented.         *)
OptionFits(table, option) == table = NoTable \/ option = "no" \/ option \in table

(* width x height: the exact key, else a wildcard.                           *)
ByDimensions(table, d) ==
    IF d \in table THEN d ELSE IF "wild" \in table /\ d \in Covered THEN "wild" ELSE "refused"

-----------------------------------------------------------------------------
(* calculateImagePrice.                                                      *)

(* The size the request leads to: its own, or that of the native picture its *)
(* dimensions are (reverseLookupAgnesResolution).                            *)
LeadsToSize(q) == q.size # "no" \/ q.resolution \/ q.widthHeight
BySize_OnlyNamed(R, q) == R.size # NoTable /\ q.size = "name" /\ SizeOf[q.picture] \in R.size
BySize(R, q) == R.size # NoTable /\ LeadsToSize(q) /\ SizeOf[q.picture] \in R.size

(* What is looked up as resolution: a size that is not in the size table as  *)
(* it stands; without a size table what it stands for with the ratio.        *)
EffectiveResolution(R, q) ==
    CASE q.resolution -> q.picture
      [] ~q.resolution /\ q.size = "no" -> "none"
      [] ~q.resolution /\ q.size = "name" -> IF R.size = NoTable THEN q.picture ELSE SizeOf[q.picture]
      [] ~q.resolution /\ q.size = "exact" -> IF R.size = NoTable THEN "none" ELSE q.picture

calculateImagePrice(R, q) ==
    IF ~OptionFits(R.quality, q.quality) THEN "refused"
    ELSE IF BySize(R, q) THEN SizeOf[q.picture]
    ELSE IF R.resolution = NoTable THEN IF R.size = NoTable THEN "base" ELSE "refused"
    ELSE IF EffectiveResolution(R, q) \in R.resolution THEN EffectiveResolution(R, q)
    ELSE IF q.widthHeight THEN ByDimensions(R.resolution, q.picture)
    ELSE "refused"

-----------------------------------------------------------------------------
(* calculateVideoPrice and resolveVideoResolutionRule.                       *)

ByDimensionsOrTier(table, c) ==
    IF ByDimensions(table, c) # "refused" THEN ByDimensions(table, c)
    ELSE IF TierOf(c) \in table THEN TierOf(c) ELSE "refused"

calculateVideoPrice(R, q) ==
    LET said == CASE q.resolution = "tier" -> TierOf(q.clip)
                  [] q.resolution = "exact" -> q.clip
                  [] q.resolution = "no" -> "none"
    IN  IF ~OptionFits(R.quality, q.quality) \/ ~OptionFits(R.fps, q.fps) THEN "refused"
        ELSE IF R.resolution = NoTable THEN "base"
        ELSE IF said \in R.resolution THEN said
        ELSE IF q.resolution = "exact" \/ q.widthHeight THEN ByDimensionsOrTier(R.resolution, q.clip)
        ELSE "refused"

QuoteImage ==
    /\ quote = NoQuote
    /\ \E R \in ImageRules, q \in ImageRequests :
          quote' = [rules |-> R, picture |-> q.picture, request |-> q, outcome |-> calculateImagePrice(R, q)]
QuoteVideo ==
    /\ quote = NoQuote
    /\ \E R \in VideoRules, q \in VideoRequests :
          quote' = [rules |-> R, clip |-> q.clip, request |-> q, outcome |-> calculateVideoPrice(R, q)]

PricingNext == QuoteImage \/ QuoteVideo
PricingSpec == PricingInit /\ [][PricingNext]_quote

-----------------------------------------------------------------------------
(* Properties.                                                               *)

(* What a picture costs: its size if the size table has it, else its exact   *)
(* dimensions, else the wildcard.                                            *)
PriceOfPicture(R, p) ==
    IF R.size # NoTable /\ SizeOf[p] \in R.size THEN SizeOf[p]
    ELSE IF R.resolution # NoTable THEN ByDimensions(R.resolution, p)
    ELSE IF R.size # NoTable THEN "refused" ELSE "base"

(* What a clip costs that is asked for by its dimensions.                    *)
PriceOfClip(R, c) == IF R.resolution = NoTable THEN "base" ELSE ByDimensionsOrTier(R.resolution, c)

(* A price depends on what is asked for, not on how it is said: however a    *)
(* request names a picture or a clip, it is refused or gets the price of the *)
(* picture or clip, and one that gives width and height gets exactly that    *)
(* (pricing-engine.ts:449-610, 964-1006).  A tier that is named has its own  *)
(* entry; where only tiers have entries it costs what its clips cost, in     *)
(* portrait and landscape.                                                   *)
AnyWordingSamePrice ==
    LET R == quote.rules
        q == quote.request
    IN  /\ "picture" \in DOMAIN quote =>
              LET price == PriceOfPicture(R, quote.picture)
              IN  /\ quote.outcome \in {price, "refused"}
                  /\ q.widthHeight /\ OptionFits(R.quality, q.quality) => quote.outcome = price
        /\ "clip" \in DOMAIN quote =>
              \/ quote.outcome \in {PriceOfClip(R, quote.clip), "refused"}
              \/ /\ q.resolution = "tier" /\ quote.outcome = TierOf(quote.clip)
                 /\ R.resolution \cap (Clips \cup {"wild"}) # {}
=============================================================================
