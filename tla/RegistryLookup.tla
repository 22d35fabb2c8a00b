--------------------------- MODULE RegistryLookup ---------------------------
(***************************************************************************)
(* get_image_remote_digest, called for one local digest after the other    *)
(* until one call returns a digest: a HEAD request to the registry, https  *)
(* first and http if the registry is configured as insecure, with a second *)
(* request when the first one is answered by a challenge.  The request     *)
(* names the local digest it was built for (If-None-Match); what the       *)
(* registry answers to the digest that was named, and what the code makes  *)
(* of the answer with the digest it holds, are steps of their own, and the *)
(* image may be published anew between them.  The digests of an image are  *)
(* numbered in the order they are published.                               *)
(***************************************************************************)
EXTENDS Naturals, Sequences

CONSTANT MaxDigest    \* bound: versions of the image that get published

ASSUME MaxDigestAssumption == MaxDigest \in Nat

VARIABLES
    served,       \* registry: digest the spec points to
    insecure,     \* INSECURE_REGISTRIES lists the registry
    ask           \* the lookup: where it is, digests left, digest named in
                  \* the headers, scheme, status and digest of the answer,
                  \* result, and the digest that was served when it began

(* No digest; as a local digest, one of an image in another repository.    *)
None == 0

Digests == 1..MaxDigest

NoLookup == [pc |-> "off", left |-> <<>>, named |-> None, scheme |-> "https",
             status |-> "none", header |-> None, found |-> None, since |-> None]

(* The headers are made once in a call, and sent with each of its requests.*)
StartLookup(locals) ==
    ask' = [NoLookup EXCEPT !.pc = "head", !.left = locals, !.named = Head(locals),
                            !.since = served]

Returns(found) ==
    ask' = [NoLookup EXCEPT !.pc = "over", !.found = found, !.since = ask.since]

(* The call raises, or returns None: on to the next local digest.          *)
NextDigest ==
    IF Len(ask.left) > 1
    THEN ask' = [ask EXCEPT !.pc = "head", !.left = Tail(@), !.scheme = "https",
                            !.named = Head(Tail(ask.left))]
    ELSE Returns(None)

(* No connection, or none that TLS accepts: the next scheme, if there is   *)
(* one, with the headers as they were at first.                            *)
Unreachable ==
    /\ ask.pc \in {"head", "token", "again"}
    /\ \/ /\ ask.scheme = "https" /\ insecure
          /\ ask' = [ask EXCEPT !.pc = "head", !.scheme = "http"]
       \/ /\ ask.scheme = "http" \/ ~insecure
          /\ NextDigest

(* 401 or 403: a token is fetched for Bearer, credentials are sent for     *)
(* Basic when the docker config has some.                                  *)
Challenged ==
    /\ ask.pc = "head"
    /\ \/ ask' = [ask EXCEPT !.pc = "token"]
       \/ ask' = [ask EXCEPT !.pc = "again"]
       \/ NextDigest

Token ==
    /\ ask.pc = "token"
    /\ \/ ask' = [ask EXCEPT !.pc = "again"]
       \/ NextDigest

(* The registry: "not modified" if what it serves is what the request      *)
(* names; otherwise, or if it does not look at that header, what it serves,*)
(* with its digest in a header or without.  An Etag that stands in for the *)
(* header is taken to be the digest.                                       *)
Responds ==
    /\ ask.pc \in {"head", "again"}
    /\ \/ /\ ask.named = served
          /\ ask' = [ask EXCEPT !.pc = "answer", !.status = "not modified", !.header = None]
       \/ \E header \in {None, served} :
             ask' = [ask EXCEPT !.pc = "answer", !.status = "ok", !.header = header]

(* Any other status is raised.                                             *)
Refuses ==
    /\ ask.pc \in {"head", "again"}
    /\ NextDigest

(* Mutant of Concludes: an answer without a digest stands for the local    *)
(* digest, as the docstring of the function has it.                        *)
ConcludesLocal ==
    /\ ask.pc = "answer"
    /\ Returns(IF ask.status = "not modified" \/ ask.header = None
               THEN Head(ask.left) ELSE ask.header)

(* "Not modified" stands for the local digest of the call; the digest of   *)
(* an answer is returned, and without one the call returns None.           *)
Concludes ==
    /\ ask.pc = "answer"
    /\ IF ask.status = "ok" /\ ask.header = None THEN NextDigest
       ELSE Returns(IF ask.status = "not modified" THEN Head(ask.left) ELSE ask.header)

LookupStep ==
    /\ Unreachable \/ Challenged \/ Token \/ Responds \/ Refuses \/ Concludes
    /\ UNCHANGED <<served, insecure>>
-----------------------------------------------------------------------------
(* Whatever schemes, challenges, failures and local digests a lookup goes  *)
(* through, and whatever is published between a request and the use of its *)
(* answer, the digest that it finds is one that the registry has served    *)
(* since it began: the local digest that "not modified" is taken for is    *)
(* the one the request named, and an answer without a digest is no answer. *)
FoundIsServed ==
    ask.pc = "over" /\ ask.found # None => ask.found \in ask.since..served
=============================================================================
