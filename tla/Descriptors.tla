---------------------------- MODULE Descriptors ----------------------------
(***************************************************************************)
(* The key descriptors of the signer's requests                            *)
(* (marshallSignDescriptors, signer_client.go).  A key is known by its     *)
(* locator, <<family, index>>; the locator <<0, 0>> is the one of a        *)
(* descriptor in which none was set.                                       *)
(***************************************************************************)
EXTENDS Naturals

CONSTANT NoValue        \* a value that is not there

ASSUME NoValueAssumption == NoValue \notin Nat \X Nat

NoLocator == <<0, 0>>

\* The descriptor of a caller who knows the public key, the locator or both.
KeyDescriptor(key, knowsPubKey, knowsLocator) ==
    [pubKey |-> IF knowsPubKey THEN key ELSE NoValue,
     locator |-> IF knowsLocator THEN key ELSE NoLocator]

\* Either the public key or the locator, as some applications expect.
PartialDescriptor(d) ==
    [pubKey |-> d.pubKey,
     locator |-> IF d.pubKey = NoValue THEN d.locator ELSE NoValue]

\* A faulty descriptor that wants both components to be set.
BothComponents(d) ==
    [pubKey |-> d.pubKey,
     locator |-> IF d.locator[1] # 0 /\ d.locator[2] # 0 THEN d.locator
                 ELSE NoValue]

\* The public key if it is set, and the locator if one of its components is.
FullDescriptor(d) ==
    [pubKey |-> d.pubKey,
     locator |-> IF d.locator[1] # 0 \/ d.locator[2] # 0 THEN d.locator
                 ELSE NoValue]

\* The key that a signer finds: the one at the locator, or the one with the public
\* key when it has derived that.
KeyFound(d, derived) ==
    IF d.locator # NoValue THEN d.locator
    ELSE IF d.pubKey \in derived THEN d.pubKey ELSE NoValue
=============================================================================
