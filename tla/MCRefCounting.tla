---------------------------- MODULE MCRefCounting ----------------------------
EXTENDS RefCounting

CONSTANTS Foo, Bar, Vec, Host \* two objects with counts, a value, an object without

MCObjects == {Foo, Bar, Vec, Host}
MCKind == [o \in MCObjects |-> CASE o = Vec -> "value" [] o = Host -> "uncounted" [] OTHER -> "counted"]
=============================================================================
