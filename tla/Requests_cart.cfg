SPECIFICATION AllSpec
CONSTANTS
    Parts = {"cart"}
    Calls = {c1, c2}
    MaxTokens = 2  MaxBans = 2  RedisFails = TRUE
    Customers = {1}  Agents = {a1}
    MaxTickets = 1  MaxMessages = 2
    Kinds = {"profile", "store", "product", "opening", "answer"}
    MaxFiles = 3  StorageFails = TRUE  CacheFails = TRUE  Crashes = TRUE
    Parent <- OneParent  MaxImages = 1  MaxUploads = 2
    Stores = {s1}  Users = {u1, u2}
    OwnerMax = 2  StaffMax = 1  Followed = {s1}  MaxEdits = 2
    UserOf <- ThreeOrders  MaxAddresses = 2  StoreGoes = TRUE
    Variants = {v1}
    MaxItems = 1  MaxCarts = 2  MaxQuantity = 1  MaxStock = 1
    Buyers = {u1, u2}  Kind = "product"  Ratings = {1, 5}  MaxReviews = 3
    Team = {u3}  Reactions = {"like", "love"}  MaxReplies = 2
    CreatorSet = TRUE
CHECK_DEADLOCK FALSE
INVARIANT OneOpenCart
