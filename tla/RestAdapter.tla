--------------------------- MODULE RestAdapter ---------------------------
(***************************************************************************)
(* The client of generic REST adapters (adapters/generic_rest): what is    *)
(* refused before a request, which requests are sent together, what an     *)
(* answer becomes, and the cache of the adapters' urls.                    *)
(*                                                                         *)
(* A type is the pair of its general type and value type.  What an adapter *)
(* holds is a function from [kind, id, key] to values; the text of         *)
(* requests, headers and time formats are left out.                        *)
(***************************************************************************)
EXTENDS Naturals, FiniteSets, Bags

CONSTANTS
    None,
    AdapterUrls,    \* adapter key -> url, what the backend answers
    OwnAdapters     \* the keys registered with the runtime itself

Failed(how) == [error |-> how]

General(type) == type[1]

(* validate_type_and_ref_id and validate_metadatum_filtered_source_sink.   *)
Valid(w) ==
    /\ w.ref_id # None /\ w.type # None
    /\ General(w.type) = "metadata" => w.ref_id_type # None /\ w.ref_key # None

(* get_generic_rest_adapter_base_url: the urls known afterwards.  Without  *)
(* the backend's answer only the runtime's own registrations are added.    *)
WithUrl(urls, adapter, backendAnswers) ==
    IF adapter \in DOMAIN urls THEN urls
    ELSE LET new == IF backendAnswers THEN DOMAIN AdapterUrls
                    ELSE DOMAIN AdapterUrls \cap OwnAdapters
         IN  [a \in DOMAIN urls \cup new |-> IF a \in new THEN AdapterUrls[a] ELSE urls[a]]

(* Where a request about w goes to: SERIES have no endpoint at all.        *)
HasEndpoint(type) == General(type) # "series"
Place(w) ==
    IF General(w.type) = "metadata"
    THEN [kind |-> IF w.ref_id_type \in {"source", "sink"} THEN w.ref_id_type ELSE "thingNode",
          id |-> w.ref_id, key |-> w.ref_key]
    ELSE [kind |-> General(w.type), id |-> w.ref_id, key |-> None]

-----------------------------------------------------------------------------
(* Sending.  The checks run in the coroutine that posts the output, so     *)
(* that one may fail when others have been posted already.                 *)

DtypeFits(wanted, dtype) ==
    \/ wanted \in {"any", dtype}
    \/ wanted = "numeric" /\ dtype \in {"int", "float"}

SeriesFits(valueType, value) ==
    /\ value.kind = "series"
    /\ value.rows # EmptyBag => value.utc /\ DtypeFits(valueType, value.dtype)
FrameFits(value) == value.kind = "frame" /\ (value.rows # EmptyBag => value.utc)
ValueFits(valueType, value) == value.kind = "value" /\ DtypeFits(valueType, value.dtype)

Fits(type, value) ==
    CASE General(type) = "timeseries" -> SeriesFits(type[2], value)
      [] General(type) = "multitsframe" -> FrameFits(value)
      [] General(type) = "dataframe" -> value.kind = "frame"
      [] General(type) = "metadata" -> ValueFits(type[2], value)
      [] OTHER -> TRUE

-----------------------------------------------------------------------------
(* Loading.                                                                *)

(* Time series with equal filters and type are asked for in one request;   *)
(* frames and metadata each in one of their own.                           *)
RequestOf(w) ==
    IF w.type # None /\ General(w.type) = "timeseries" THEN <<w.filters, w.type>> ELSE <<w.name>>

Requests(wirings) == {RequestOf(w) : w \in wirings}

(* A value that is not there, or of another type, is refused.              *)
Metadatum(w, holds) ==
    IF Place(w) \in DOMAIN holds /\ Fits(w.type, holds[Place(w)])
    THEN [error |-> "no", frame |-> holds[Place(w)]] ELSE Failed("handling")

(* What is loaded for w from an adapter that holds holds: a series without *)
(* points if the adapter has none for the id (RESULT_EMPTY, or rows of     *)
(* other ids only), nothing at all for a SERIES.                           *)
LoadedFor(w, holds, empty) ==
    CASE General(w.type) = "metadata" -> Metadatum(w, holds)
      [] General(w.type) = "series" -> [error |-> "no", frame |-> None]
      [] OTHER -> [error |-> "no",
                   frame |-> IF Place(w) \in DOMAIN holds THEN holds[Place(w)] ELSE empty]
=============================================================================
