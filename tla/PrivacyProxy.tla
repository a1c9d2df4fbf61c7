---------------------------- MODULE PrivacyProxy ----------------------------
(***************************************************************************)
(* Requests that leave their sensitive values at home: proxy() of          *)
(* src/privacy_sidecar/main.py with the media of media_service.py, and the *)
(* two clients of src/grandice_privacy/client.py, whose protect() and      *)
(* restore() share one vault for as long as the client lives.              *)
(*                                                                         *)
(* A request goes up to the call of the gateway in one step, and takes the *)
(* answer, which is anything the gateway may say, in another: between them *)
(* it is suspended and other requests run.  Redacting media is the work of *)
(* libraries: it succeeds or it does not.                                  *)
(***************************************************************************)
EXTENDS TokenVault

CONSTANTS Requests,
          Inputs,     (* what each request may be                          *)
          Answers,    (* what the gateway may answer                       *)
          Notes,      (* what a client has protected by itself             *)
          MaxNotes    (* bound on the number of such calls                 *)

VARIABLES leg,     (* of each request: "new", "sent", how it was refused   *)
                   (* or "answered"                                        *)
          ask,     (* what was asked                                       *)
          vault,   (* its own vault                                        *)
          sent,    (* what went to the gateway                             *)
          said,    (* what came back                                       *)
          answer,  (* what the caller got                                  *)
          kept,    (* _vault of the client, for protect() and restore()    *)
          notes    (* history: what was protected, before and after        *)

proxyVars == <<leg, ask, vault, sent, said, answer, kept, notes>>

NoRequest == [via |-> "none"]

ProxyInit ==
    /\ leg = [r \in Requests |-> "new"]
    /\ ask = [r \in Requests |-> NoRequest]
    /\ vault = [r \in Requests |-> EmptyVault]
    /\ sent = [r \in Requests |-> <<>>]
    /\ said = [r \in Requests |-> <<>>]
    /\ answer = [r \in Requests |-> <<>>]
    /\ kept = EmptyVault
    /\ notes = <<>>

-----------------------------------------------------------------------------
(* Media                                                                   *)

Unusable == "unusable"   \* remote, without a type, too large, undecodable ...

HasMedia(document) == \E n \in DOMAIN document : IsMedia(document[n].text)

Unprotectable(document) ==
    \E n \in DOMAIN document :
        IsMedia(document[n].text) /\ document[n].text[1][2] = Unusable

\* Each medium gives way to a sentinel of its own while the text is handled.
Sentinel(n) == <<"sentinel", "", n>>
HideMedia(document) ==
    [n \in DOMAIN document |->
        IF IsMedia(document[n].text)
        THEN Leaf(document[n].path, <<Sentinel(n)>>) ELSE document[n]]

Redacted == Mark("redacted", 0)

\* restore_embedded_data_urls(): a leaf that is a sentinel, and nothing else,
\* becomes the redacted medium.
ShowMedia(document, original) ==
    [n \in DOMAIN document |->
        IF \E m \in DOMAIN original :
              IsMedia(original[m].text) /\ document[n].text = <<Sentinel(m)>>
        THEN Leaf(document[n].path, <<Redacted>>)
        ELSE document[n]]

-----------------------------------------------------------------------------
(* Requests                                                                *)

Sensitive(text, policy) == Matches(text, policy) # {}

KeyTexts(document) ==
    {<<Word(key)>> : key \in UNION {ToSet(document[n].path) :
                                       n \in DOMAIN document}}

\* What proxy() refuses before it changes anything, in the order of the code.
SidecarRefuses(input) ==
    \/ input.query
    \/ ~input.json
    \/ input.stream
    \/ input.policy \notin DOMAIN Policies
    \/ Sensitive(input.url, input.policy)
    \/ \E key \in KeyTexts(input.body) : Sensitive(key, input.policy)
    \/ Unprotectable(input.body)

\* request(): an engine that finds media raises an exception.
ClientRefuses(input) == input.stream \/ HasMedia(input.body)

Refuses(input) ==
    IF input.via = "sidecar" THEN SidecarRefuses(input) ELSE ClientRefuses(input)

\* No expression of a policy fits a sentinel, which is random.
NoSentinelFound(policy) ==
    \A d \in DOMAIN Policies[policy] :
        \A word \in ToSet(Policies[policy][d].words) :
            \A atom \in ToSet(word) : atom[1] # "sentinel"

\* What arrives and what is answered are documents; a client has a policy, and
\* the sidecar refuses one it does not know.
ASSUME PrivacyAssumption ==
    /\ \A policy \in DOMAIN Policies : ProperPolicy(policy)
    /\ \A r \in Requests : \A input \in Inputs[r] :
          /\ IsDocument(input.body)
          /\ input.via # "sidecar" => input.policy \in DOMAIN Policies
          /\ input.policy \in DOMAIN Policies => NoSentinelFound(input.policy)
    /\ \A reply \in Answers : IsDocument(reply.document)
    /\ \A note \in Notes : /\ IsDocument(note.document)
                            /\ note.policy \in DOMAIN Policies

Submit(r, input) ==
    /\ leg[r] = "new"
    /\ ask' = [ask EXCEPT ![r] = input]
    /\ IF Refuses(input)
       THEN /\ leg' = [leg EXCEPT ![r] = "refused"]
            /\ UNCHANGED <<vault, sent>>
       ELSE LET own == Tokenize(HideMedia(input.body), input.policy, EmptyVault)
            IN /\ leg' = [leg EXCEPT ![r] = "sent"]
               /\ vault' = [vault EXCEPT ![r] = own.vault]
               /\ sent' = [sent EXCEPT ![r] =
                              ShowMedia(own.document, input.body)]
    /\ UNCHANGED <<said, answer, kept, notes>>

\* The answer of the gateway with new sensitive values masked, then what this
\* request had replaced put back.
Received(r, document) ==
    ShowMedia(RestoreResponse(Mask(HideMedia(document), ask[r].policy), vault[r]),
              document)

Finish(r, how) ==
    /\ leg' = [leg EXCEPT ![r] = how]
    /\ UNCHANGED <<ask, vault, sent, kept, notes>>

\* The gateway cannot be reached, or what it says cannot be checked.
Fail(r) ==
    /\ leg[r] = "sent"
    /\ Finish(r, "failed")
    /\ UNCHANGED <<said, answer>>

Answer(r, reply) ==
    /\ leg[r] = "sent"
    /\ said' = [said EXCEPT ![r] = reply.document]
    /\ IF ask[r].via = "client" /\ ~reply.json
       THEN /\ Finish(r, "passed on")
            /\ answer' = [answer EXCEPT ![r] = reply.document]
       ELSE IF \/ ask[r].via = "sidecar"
                    /\ (~reply.json \/ Unprotectable(reply.document))
               \/ ask[r].via = "client" /\ HasMedia(reply.document)
       THEN Finish(r, "blocked") /\ UNCHANGED answer
       ELSE /\ Finish(r, "answered")
            /\ answer' = [answer EXCEPT ![r] = Received(r, reply.document)]

\* protect() of a client, on its lasting vault.
Protect(document, policy) ==
    LET own == Tokenize(document, policy, kept)
    IN /\ Len(notes) < MaxNotes
       /\ ~HasMedia(document)
       /\ kept' = own.vault
       /\ notes' = Append(notes, [plain |-> document, safe |-> own.document])
       /\ UNCHANGED <<leg, ask, vault, sent, said, answer>>

ProxyNext ==
    \/ \E r \in Requests :
          \/ \E input \in Inputs[r] : Submit(r, input)
          \/ \E reply \in Answers : Answer(r, reply)
          \/ Fail(r)
    \/ \E note \in Notes : Protect(note.document, note.policy)

ProxySpec == ProxyInit /\ [][ProxyNext]_proxyVars

-----------------------------------------------------------------------------
(* Properties                                                              *)

AtomsOf(document) == UNION {ToSet(document[n].text) : n \in DOMAIN document}
Lookalike(document, own) == AtomsOf(document) \cap TokensOf(own) # {}
Forwarded(r) == leg[r] \notin {"new", "refused"}

\* What was replaced comes back as it was, also when many values and texts
\* share a vault, as long as no text held what looks like one of its tokens.
RoundTrip ==
    /\ \A r \in Requests :
          Forwarded(r) /\ ~Lookalike(ask[r].body, vault[r]) =>
              Restore(sent[r], vault[r]) =
                  ShowMedia(HideMedia(ask[r].body), ask[r].body)
    /\ \A n \in DOMAIN notes :
          ~(\E m \in DOMAIN notes : Lookalike(notes[m].plain, kept)) =>
              Restore(notes[n].safe, kept) = notes[n].plain

\* Of the text of a request, only what lies outside the findings is sent: the
\* rest are tokens of its own vault, and media are redacted.
FindingsStay ==
    \A r \in Requests : Forwarded(r) =>
        LET asked == HideMedia(ask[r].body)
        IN \A n \in DOMAIN sent[r] :
              ToSet(sent[r][n].text) \subseteq
                  Uncovered(asked[n].text, ask[r].policy)
                  \cup TokensOf(vault[r]) \cup {Redacted}

\* Of the text of an answer, what lies outside the findings arrives and the
\* rest is masked; the values of this very request, and of no other, return,
\* and only in the text that the user sees.
NothingForeign ==
    \A r \in Requests : leg[r] = "answered" =>
        LET reply == HideMedia(said[r])
        IN \A n \in DOMAIN answer[r] :
              \A atom \in ToSet(answer[r][n].text) :
                  \/ atom \in Uncovered(reply[n].text, ask[r].policy)
                  \/ atom[1] = "masked" \/ atom = Redacted
                  \/ /\ VisibleText(answer[r][n].path)
                     /\ atom \in AtomsOf(HideMedia(ask[r].body))

\* Tokens stand for the values of one request and are undone for it alone:
\* they return as they were, what was found is not sent, and nobody else gets
\* it (PrivacyEngine, TokenVault, proxy(), request()).
RestoreUndoesTokenize == RoundTrip /\ FindingsStay /\ NothingForeign
=============================================================================
