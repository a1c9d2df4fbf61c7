----------------------------- MODULE TokenVault -----------------------------
(***************************************************************************)
(* The substitution of sensitive values: detect_text() of                  *)
(* src/grandice_privacy/detectors.py, and TokenVault and PrivacyEngine of  *)
(* engine.py.                                                              *)
(*                                                                         *)
(* A text is a sequence of atoms: words, tokens as a vault makes them, the *)
(* marks that masking leaves, and media.  A regular expression is the list *)
(* of the sequences of atoms it fits, in the order it tries them, and the  *)
(* atoms it does not border on; how it is written is left out, how the     *)
(* text is searched is not.  A JSON document is the sequence of its        *)
(* leaves, each with the keys that lead to it.                             *)
(***************************************************************************)
EXTENDS ListsInOrder

CONSTANTS Policies  (* for each policy its detectors, in the order of the  *)
                    (* code: the type, the words that the expression fits  *)
                    (* in the order it tries them, those that the          *)
                    (* validator lets pass, the atoms that may not be      *)
                    (* beside a match (glue), the confidence and the       *)
                    (* length of the name of the type                      *)

Word(w) == <<"word", w, 0>>
Token(type, number) == <<"token", type, number>>
Masked(type) == <<"masked", type, 0>>
Mark(name, number) == <<"media", name, number>>   \* embedded media
IsMedia(text) == Len(text) = 1 /\ text[1][1] = "media"

-----------------------------------------------------------------------------
(* Detection                                                               *)

\* Where the expression of a detector fits the text.
Fitting(text, detector) ==
    {m \in [first : DOMAIN text, last : DOMAIN text] :
        /\ m.first <= m.last
        /\ SubSeq(text, m.first, m.last) \in ToSet(detector.words)
        /\ m.first > 1 => text[m.first - 1] \notin detector.glue
        /\ m.last < Len(text) => text[m.last + 1] \notin detector.glue}

\* Of what fits at one place, the word that is tried first: the longest for
\* a greedy expression, and the validator has no say in it.
FoundFirst(text, detector) ==
    {m \in Fitting(text, detector) :
        \E k \in DOMAIN detector.words :
            /\ SubSeq(text, m.first, m.last) = detector.words[k]
            /\ \A n \in Fitting(text, detector) :
                  n.first = m.first /\ n # m =>
                      \A j \in 1 .. k :
                          SubSeq(text, n.first, n.last) # detector.words[j]}

\* finditer(): from the left, each search begins after the match before.
Scanned(text, detector) ==
    LET found == FoundFirst(text, detector)
    IN CHOOSE A \in SUBSET found :
          \A m \in found :
              m \in A <=> ~ \E n \in A : /\ n.first < m.first
                                         /\ m.first <= n.last

\* The candidates: what a validator refuses is lost with all its atoms.
Matches(text, policy) ==
    LET detectors == Policies[policy]
        scanned == [d \in DOMAIN detectors |-> Scanned(text, detectors[d])]
    IN {m \in [detector : DOMAIN detectors, first : DOMAIN text,
               last : DOMAIN text] :
          /\ [first |-> m.first, last |-> m.last] \in scanned[m.detector]
          /\ SubSeq(text, m.first, m.last) \in detectors[m.detector].valid}

\* Higher confidence first, then the longer match, then the earlier one.
Preferred(m, n, policy) ==
    LET sure(x) == Policies[policy][x.detector].confidence
        long(x) == x.last - x.first
    IN IF sure(m) # sure(n) THEN sure(m) > sure(n)
       ELSE IF long(m) # long(n) THEN long(m) > long(n)
       ELSE IF m.first # n.first THEN m.first < n.first
       ELSE m.detector < n.detector

Overlap(m, n) == m.first <= n.last /\ n.first <= m.last

\* The accepted matches: those that overlap no accepted match that is
\* preferred to them.
Accepted(text, policy) ==
    LET matches == Matches(text, policy)
    IN CHOOSE A \in SUBSET matches :
          \A m \in matches :
              m \in A <=> ~ \E n \in A : /\ Preferred(n, m, policy)
                                         /\ Overlap(n, m)

\* The atoms of the text that are in no accepted match.
Uncovered(text, policy) ==
    LET accepted == Accepted(text, policy)
    IN {text[k] : k \in {i \in DOMAIN text :
          \A m \in accepted : ~(m.first <= i /\ i <= m.last)}}

\* Mutant of FromTheEnd: from the first to the last.
FromTheStart(text, policy) ==
    InOrder(Accepted(text, policy), LAMBDA m, n : m.first < n.first)

\* The findings from the last to the first: the order of substitution.
FromTheEnd(text, policy) ==
    InOrder(Accepted(text, policy), LAMBDA m, n : m.first > n.first)

\* A policy as it can be: its expressions fit at least one atom.
ProperPolicy(policy) ==
    /\ IsList(Policies[policy])
    /\ \A d \in DOMAIN Policies[policy] :
          /\ IsList(Policies[policy][d].words)
          /\ \A word \in ToSet(Policies[policy][d].words) :
                IsList(word) /\ word # << >>
          /\ Policies[policy][d].confidence \in Int
          /\ Policies[policy][d].length \in Int

-----------------------------------------------------------------------------
(* The vault: a sequence of the substitutions made so far                  *)

EmptyVault == <<>>

TokensOf(vault) == {vault[n].token : n \in DOMAIN vault}

TokenFor(vault, type, value) ==
    LET known == {n \in DOMAIN vault :
                     vault[n].type = type /\ vault[n].value = value}
        count == Cardinality({n \in DOMAIN vault : vault[n].type = type})
    IN IF known # {} THEN vault[CHOOSE n \in known : TRUE].token
       ELSE Token(type, count + 1)

Remember(vault, type, value, length) ==
    IF \E n \in DOMAIN vault : vault[n].type = type /\ vault[n].value = value
    THEN vault
    ELSE Append(vault, [type |-> type, value |-> value, length |-> length,
                        token |-> TokenFor(vault, type, value)])

Splice(text, m, atom) ==
    SubSeq(text, 1, m.first - 1) \o <<atom>>
    \o SubSeq(text, m.last + 1, Len(text))

\* One text: its findings are replaced by tokens of the vault, which grows.
TokenizeText(text, policy, vault) ==
    FoldLeft(LAMBDA done, m :
        LET detector == Policies[policy][m.detector]
            value == SubSeq(text, m.first, m.last)
        IN [text |-> Splice(done.text, m,
                            TokenFor(done.vault, detector.type, value)),
            vault |-> Remember(done.vault, detector.type, value,
                               detector.length)],
        [text |-> text, vault |-> vault], FromTheEnd(text, policy))

MaskText(text, policy) ==
    FoldLeft(LAMBDA done, m :
        Splice(done, m, Masked(Policies[policy][m.detector].type)),
        text, FromTheEnd(text, policy))

Leaf(path, text) == [path |-> path, text |-> text]

\* A document as json.loads() makes it.
IsDocument(document) ==
    /\ IsList(document)
    /\ \A n \in DOMAIN document :
          /\ document[n] = Leaf(document[n].path, document[n].text)
          /\ IsList(document[n].text)

\* A document, leaf by leaf with one vault.
Tokenize(document, policy, vault) ==
    FoldLeft(LAMBDA done, leaf :
        LET one == TokenizeText(leaf.text, policy, done.vault)
        IN [document |-> Append(done.document, Leaf(leaf.path, one.text)),
            vault |-> one.vault],
        [document |-> <<>>, vault |-> vault], document)

Mask(document, policy) ==
    [n \in DOMAIN document |->
        Leaf(document[n].path, MaskText(document[n].text, policy))]

-----------------------------------------------------------------------------
(* Restoring                                                               *)

\* The longest tokens first, those of one length in the order they were made.
RestoreOrder(vault) ==
    InOrder(DOMAIN vault, LAMBDA a, b :
        \/ vault[a].length > vault[b].length
        \/ vault[a].length = vault[b].length /\ a < b)

\* Each token in its turn, in the text that the turns before it have left.
RestoreText(text, vault) ==
    FoldLeft(LAMBDA done, n :
        FlattenSeq([k \in DOMAIN done |->
            IF done[k] = vault[n].token THEN vault[n].value ELSE <<done[k]>>]),
        text, RestoreOrder(vault))

Restore(document, vault) ==
    [n \in DOMAIN document |->
        Leaf(document[n].path, RestoreText(document[n].text, vault))]

SafeKeys == {"content", "text", "output_text"}
BlockedKeys == {"tool_calls", "tool_call", "function_call", "function",
                "arguments", "input"}

\* A path has the keys only: the elements of a list keep the key of the list.
VisibleText(path) ==
    /\ path # <<>>
    /\ path[Len(path)] \in SafeKeys
    /\ \A n \in DOMAIN path : path[n] \notin BlockedKeys

RestoreResponse(document, vault) ==
    [n \in DOMAIN document |->
        IF VisibleText(document[n].path)
        THEN Leaf(document[n].path, RestoreText(document[n].text, vault))
        ELSE document[n]]
=============================================================================
