SPECIFICATION Spec
CONSTANTS
    Labels <- StoreAndLoad
    MaxLengthX = 4
    MaxLengthY = 3
    MaxLength = 6
    UIntWrap = 16
INVARIANTS StringsExact LazyIsEager
PROPERTY ChecksAsPromised
