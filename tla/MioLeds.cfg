CONSTANT N = 2
SPECIFICATION Spec
INVARIANT LedsRightAtRest
PROPERTY Settles
