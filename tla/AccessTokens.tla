------------------------------ MODULE AccessTokens ------------------------------
(***************************************************************************)
(* The access tokens KeyEncryptor sends to Cloud KMS.  In Confidential      *)
(* Space a token is exchanged for an attestation and kept; the time it      *)
(* expires is reckoned from when the answer arrives, which is later than    *)
(* when it was issued.  Without Confidential Space the metadata server is   *)
(* asked every time.                                                        *)
(***************************************************************************)
EXTENDS Naturals

CONSTANTS
  KmsCalls,      \* concurrent calls of Cloud KMS
  Lifetimes,     \* expires_in of the tokens that are issued
  Margin,        \* a kept token is used if it has more than this left: 60 s
  AnswerDelay,   \* at most, from the issue of a token to its arrival
  SendDelay,     \* at most, from the choice of a token until KMS looks at it
  MaxTime        \* bound

ASSUME AccessTokensAssumption ==
  /\ {Margin, AnswerDelay, SendDelay, MaxTime} \subseteq Nat
  /\ AnswerDelay + SendDelay <= Margin
  /\ \A t \in Lifetimes : t \in Nat /\ t > AnswerDelay + SendDelay

VARIABLES
  clock,
  mode,         \* KEY_ENCRYPTION_MODE: "gcp-kms" or "gcp-confidential-space-kms"
  cachedToken,  \* when the kept token expires, and when the mint thinks so; 0 is none
  kmsCall       \* of each call: its step, its token, and since when it waits

tokenVars == <<clock, mode, cachedToken, kmsCall>>

NoToken == [expires |-> 0, expiresAt |-> 0]
NoKmsCall == [step |-> "none", expires |-> 0, life |-> 0, since |-> 0]

TokensInit ==
  /\ clock = 0
  /\ mode \in {"gcp-kms", "gcp-confidential-space-kms"}
  /\ cachedToken = NoToken
  /\ kmsCall = [c \in KmsCalls |-> NoKmsCall]

(* Nothing waits for longer than its delay. *)
ClockTicks ==
  /\ clock < MaxTime
  /\ \A c \in KmsCalls :
       /\ kmsCall[c].step = "answer" => clock < kmsCall[c].since + AnswerDelay
       /\ kmsCall[c].step = "send" => clock < kmsCall[c].since + SendDelay
  /\ clock' = clock + 1
  /\ UNCHANGED <<mode, cachedToken, kmsCall>>

Carry(c, expires) ==
  kmsCall' = [kmsCall EXCEPT ![c] = [step |-> "send", expires |-> expires, life |-> 0, since |-> clock]]

(* Mutant: a kept token is used until it expires. *)
KeptIsUsableToTheEnd == cachedToken.expiresAt > clock

KeptIsUsable == cachedToken.expiresAt > clock + Margin

(* callCloudKms asks for a token.                                           *)
UseKept(c) ==
  /\ kmsCall[c].step = "none"
  /\ mode = "gcp-confidential-space-kms" /\ KeptIsUsable
  /\ Carry(c, cachedToken.expires)
  /\ UNCHANGED <<clock, mode, cachedToken>>

(* getConfidentialSpaceSubjectToken: an attestation, of no age that matters. *)
Attest(c) ==
  /\ kmsCall[c].step = "none"
  /\ mode = "gcp-confidential-space-kms" => ~KeptIsUsable
  /\ kmsCall' = [kmsCall EXCEPT ![c].step = "exchange"]
  /\ UNCHANGED <<clock, mode, cachedToken>>

(* sts.googleapis.com, or the metadata server, issues a token.              *)
IssueToken(c, life) ==
  /\ kmsCall[c].step = "exchange"
  /\ kmsCall' = [kmsCall EXCEPT ![c] =
                   [step |-> "answer", expires |-> clock + life, life |-> life, since |-> clock]]
  /\ UNCHANGED <<clock, mode, cachedToken>>

TokenArrives(c) ==
  /\ kmsCall[c].step = "answer"
  /\ cachedToken' = IF mode = "gcp-confidential-space-kms"
                    THEN [expires |-> kmsCall[c].expires, expiresAt |-> clock + kmsCall[c].life]
                    ELSE cachedToken
  /\ Carry(c, kmsCall[c].expires)
  /\ UNCHANGED <<clock, mode>>

(* Cloud KMS has looked at the token, or a request on the way failed.       *)
EndKmsCall(c) ==
  /\ kmsCall[c].step # "none"
  /\ kmsCall' = [kmsCall EXCEPT ![c] = NoKmsCall]
  /\ UNCHANGED <<clock, mode, cachedToken>>

AccessTokensNext ==
  \/ ClockTicks
  \/ \E c \in KmsCalls :
       \/ UseKept(c) \/ Attest(c) \/ TokenArrives(c) \/ EndKmsCall(c)
       \/ \E life \in Lifetimes : IssueToken(c, life)

AccessTokensSpec == TokensInit /\ [][AccessTokensNext]_tokenVars

-----------------------------------------------------------------------------

(* No request reaches Cloud KMS with a token that has expired, though the   *)
(* mint believes each token lives longer than it does, and answers to       *)
(* concurrent calls may put an older token over a newer one.                *)
TokenIsValid == \A c \in KmsCalls : kmsCall[c].step = "send" => kmsCall[c].expires > clock
=============================================================================
