SPECIFICATION Spec
CONSTANTS
    max_size_bytes = 10
    offset_bytes = 4
    alignment = 2
    page_size = 1
    num_banks = 2
    num_shards = 1
    Pages = {1, 3}
    Sizes = {3}
    address_limit = 8
    Nil = Nil
INVARIANTS
    ListsAgree
PROPERTIES
    ImplementsAddressSpace
CHECK_DEADLOCK FALSE
