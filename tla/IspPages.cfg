SPECIFICATION AddressSpec
CONSTANT Lengths <- MCLengths
INVARIANTS AllPages
PROPERTIES PagesInOrder
CHECK_DEADLOCK FALSE
